---- MODULE Spec2Model ----
(***************************************************************************)
(* Verification model of the eparchia-weather notification job: the       *)
(* deterministic weather generator (season resolution, seeded condition   *)
(* selection, impact lookup, daily / advance / weekly windows), the       *)
(* Google Sheets configuration parse and cache, the region resolution of  *)
(* src/config/config.js and the two advance-forecast jobs.                *)
(*                                                                         *)
(* JavaScript arrays are TLA+ sequences, so indexes are 1-based here and   *)
(* findIndex's -1 ("not found") is 0.  JavaScript objects are functions    *)
(* from field names; an optional field is present iff its name is in the   *)
(* DOMAIN of the record.  An ordered object (Object.entries order) is a    *)
(* sequence of [id, data] entries.                                         *)
(***************************************************************************)
EXTENDS Integers, Sequences, FiniteSets, TLC

VARIABLES
    regionsConfig,   \* config.js: regionsConfig.regions, as ordered entries
    today,           \* the calendar date new Date() returns
    calls,           \* the last generation calls made: <<previous, latest>>
    ticks,           \* how many times the clock has advanced
    cachedConfig,    \* googleSheetsService: cachedConfig
    sheetReads,      \* how many times the two sheets have been read
    nextObj,         \* identity given to the next object mergeConfiguration builds
    cacheClears,     \* how many times clearConfigCache has been called
    fetchCalls,      \* per fetchConfiguration call: its position and result
    job,             \* which advance job is running, and its control state
    posts,           \* axios.post attempts made, in order
    exitCode,        \* "running", or how the process ended: "exit0" / "exit1"
    input,           \* what a configuration function is called with
    result           \* what that function returned (or that it threw)

vars == <<regionsConfig, today, calls, ticks, cachedConfig, sheetReads,
          nextObj, cacheClears, fetchCalls, job, posts, exitCode, input, result>>

genVars   == <<regionsConfig, today, calls, ticks>>
cacheVars == <<cachedConfig, sheetReads, nextObj, cacheClears, fetchCalls>>
jobVars   == <<job, posts, exitCode>>
fnVars    == <<input, result>>

(***************************************************************************)
(* Bounds of the model.                                                    *)
(***************************************************************************)
MaxTicks == 2      \* clock advances per behaviour
MaxJump  == 3      \* days the clock may advance in one step
MaxFetchCalls == 3 \* fetchConfiguration calls per behaviour
MaxClears == 1     \* clearConfigCache calls per behaviour

(***************************************************************************)
(* JavaScript values                                                       *)
(***************************************************************************)
Undefined == "<undefined>"
None      == "<none>"

Has(obj, field) == field \in DOMAIN obj

Range(s) == {s[i] : i \in DOMAIN s}

\* Array.prototype.map / findIndex on sequences (filter is SelectSeq)
MapSeq(s, F(_)) == [i \in DOMAIN s |-> F(s[i])]

FindIndex(s, P(_)) ==
    IF \E i \in DOMAIN s : P(s[i])
    THEN CHOOSE i \in DOMAIN s : P(s[i]) /\ \A j \in 1..(i - 1) : ~P(s[j])
    ELSE 0

(***************************************************************************)
(* Calendar dates: what Date's getFullYear / getMonth / getDate / setDate  *)
(* / getDay do on the local calendar date.  Months are 1..12.              *)
(***************************************************************************)
IsLeapYear(y) == (y % 4 = 0 /\ y % 100 # 0) \/ y % 400 = 0

DaysInMonth(y, m) ==
    CASE m \in {4, 6, 9, 11} -> 30
      [] m = 2 -> IF IsLeapYear(y) THEN 29 ELSE 28
      [] OTHER -> 31

Date(y, m, d) == [year |-> y, month |-> m, day |-> d]

\* Date.prototype.setDate(n), n >= 1: a day past the end of the month rolls
\* over into the following month(s) and year.
RECURSIVE setDate(_, _)
setDate(date, n) ==
    IF n <= DaysInMonth(date.year, date.month)
    THEN [date EXCEPT !.day = n]
    ELSE setDate(
           IF date.month = 12
           THEN Date(date.year + 1, 1, 1)
           ELSE Date(date.year, date.month + 1, 1),
           n - DaysInMonth(date.year, date.month))

AddDays(date, k) == setDate(date, date.day + k)

\* Date.prototype.getDay(): 0 = Sunday .. 6 = Saturday
getDay(date) ==
    LET t == <<0, 3, 2, 5, 0, 3, 5, 1, 4, 6, 2, 4>>
        y == IF date.month < 3 THEN date.year - 1 ELSE date.year
    IN (y + y \div 4 - y \div 100 + y \div 400 + t[date.month] + date.day) % 7

WeekdayNames ==
    <<"Sunday", "Monday", "Tuesday", "Wednesday", "Thursday", "Friday", "Saturday">>

(***************************************************************************)
(* Strings.  TLA+ strings are atoms, so the string functions the code uses *)
(* are given by what they return on the strings that occur in the model's  *)
(* sheets and configurations.                                              *)
(***************************************************************************)
\* String.prototype.trim
Trim(s) ==
    CASE s = " " -> ""
      [] s = " Showers" -> "Showers"
      [] s = " Fog" -> "Fog"
      [] s = " Storms" -> "Storms"
      [] s = " Rain" -> "Rain"
      [] s = " Blizzard" -> "Blizzard"
      [] s = " Cool" -> "Cool"
      [] s = "Snow " -> "Snow"
      [] s = " Snow" -> "Snow"
      [] s = " Blizzard " -> "Blizzard"
      [] s = " https://discord.test/adv/2" -> "https://discord.test/adv/2"
      [] s = " https://discord.test/hook/1 " -> "https://discord.test/hook/1"
      [] s = " Northern Eparchia" -> "Northern Eparchia"
      [] OTHER -> s

\* String.prototype.toLowerCase
ToLowerCase(s) ==
    CASE s = "Region" -> "region"
      [] s = "Spring Weather" -> "spring weather"
      [] s = "Summer Weather" -> "summer weather"
      [] s = "Autumn Weather" -> "autumn weather"
      [] s = "Fall Weather" -> "fall weather"
      [] s = "Winter Weather" -> "winter weather"
      [] s = "Condition" -> "condition"
      [] s = "Mechanical Impact" -> "mechanical impact"
      [] s = "Webhook URL" -> "webhook url"
      [] s = "Weather Region" -> "weather region"
      [] OTHER -> s

\* String.prototype.includes, on lower-cased header cells
Includes(s, sub) ==
    <<s, sub>> \in { <<"spring weather", "spring">>, <<"summer weather", "summer">>,
                     <<"autumn weather", "autumn">>, <<"fall weather", "fall">>,
                     <<"winter weather", "winter">>,
                     <<"mechanical impact", "mechanical">>,
                     <<"mechanical impact", "impact">>,
                     <<"webhook url", "webhook">>, <<"webhook url", "url">>,
                     <<"weather region", "weather">>, <<"weather region", "region">>,
                     <<"region", "region">>,
                     <<"spring weather", "weather">>, <<"summer weather", "weather">>,
                     <<"autumn weather", "weather">>, <<"fall weather", "weather">>,
                     <<"winter weather", "weather">> }

\* String.prototype.split(",")
Split(s) ==
    CASE s = "Mild day, Showers, Fog" -> <<"Mild day", " Showers", " Fog">>
      [] s = "Hot and sunny, Storms" -> <<"Hot and sunny", " Storms">>
      [] s = "Crisp day, Rain" -> <<"Crisp day", " Rain">>
      [] s = "Snow , Blizzard" -> <<"Snow ", " Blizzard">>
      [] s = "Blizzard, Snow, Blizzard" -> <<"Blizzard", " Snow", " Blizzard">>
      [] s = "Mountain mist, Cool" -> <<"Mountain mist", " Cool">>
      [] s = "Early frost, " -> <<"Early frost", " ">>
      [] s = " , " -> <<" ", " ">>
      [] s = "https://discord.test/adv/1, https://discord.test/adv/2" ->
             <<"https://discord.test/adv/1", " https://discord.test/adv/2">>
      [] s = "https://discord.test/adv/1," -> <<"https://discord.test/adv/1", "">>
      [] OTHER -> <<s>>

\* The UTF-16 code units of a region identifier (String.prototype.charCodeAt)
CharCodes(s) ==
    CASE s = "northern_eparchia" ->
             <<110, 111, 114, 116, 104, 101, 114, 110, 95, 101, 112, 97, 114, 99,
               104, 105, 97>>
      [] s = "southern_highlands" ->
             <<115, 111, 117, 116, 104, 101, 114, 110, 95, 104, 105, 103, 104,
               108, 97, 110, 100, 115>>
      [] s = "Northern Eparchia" ->
             <<78, 111, 114, 116, 104, 101, 114, 110, 32, 69, 112, 97, 114, 99,
               104, 105, 97>>
      [] s = "Southern Highlands" ->
             <<83, 111, 117, 116, 104, 101, 114, 110, 32, 72, 105, 103, 104, 108,
               97, 110, 100, 115>>
      [] OTHER -> <<>>

\* A truthy JavaScript string: defined and not empty
Truthy(s) == s # Undefined /\ s # ""

\* row[i] of a sheet row; a row shorter than i has no such cell
Cell(row, i) == IF i \in DOMAIN row THEN row[i] ELSE Undefined

\* row[i]?.trim()
TrimCell(row, i) == IF Cell(row, i) = Undefined THEN Undefined ELSE Trim(Cell(row, i))

\* h?.toLowerCase().trim() || ""
HeaderCell(h) == IF h = Undefined THEN "" ELSE Trim(ToLowerCase(h))

(***************************************************************************)
(* googleSheetsService: the parse of the "Weather Regions" sheet and the   *)
(* merge with the "Commander Database" webhook map.                        *)
(***************************************************************************)
Seasons == <<"spring", "summer", "autumn", "winter">>

\* parseConditions without the blank-cell guard and the empty-item filter
parseConditions_keepEmpty(cellValue) ==
    MapSeq(Split(IF cellValue = Undefined THEN "" ELSE cellValue), Trim)

\* const parseConditions = (cellValue) => ...
parseConditions(cellValue) ==
    IF ~Truthy(cellValue) THEN <<>>
    ELSE SelectSeq(MapSeq(Split(cellValue), Trim), LAMBDA c : c # "")

\* The rows parseRegionalWeatherTable reads: from the row after the header up
\* to endRow / the end of the data, stopping at the first row without a region.
RECURSIVE RegionRows(_, _, _)
RegionRows(data, i, endRow) ==
    IF ~(i < endRow /\ i <= Len(data)) THEN <<>>
    ELSE IF ~Truthy(TrimCell(data[i], 1)) THEN <<>>
    ELSE <<data[i]>> \o RegionRows(data, i + 1, endRow)

\* parseRegionalWeatherTable(data, startRow, endRow): region name -> seasons;
\* "missing" when a season column is not found (the code throws).
parseRegionalWeatherTable(data, startRow, endRow) ==
    LET headers     == MapSeq(data[startRow], HeaderCell)
        springIndex == FindIndex(headers, LAMBDA h : Includes(h, "spring"))
        summerIndex == FindIndex(headers, LAMBDA h : Includes(h, "summer"))
        autumnIndex == FindIndex(headers,
                         LAMBDA h : Includes(h, "autumn") \/ Includes(h, "fall"))
        winterIndex == FindIndex(headers, LAMBDA h : Includes(h, "winter"))
        rows        == RegionRows(data, startRow + 1, endRow)
        \* a later row of the same region name overwrites an earlier one
        lastRow(n)  == rows[CHOOSE i \in DOMAIN rows :
                              /\ Trim(rows[i][1]) = n
                              /\ \A j \in DOMAIN rows : Trim(rows[j][1]) = n => j <= i]
    IN IF 0 \in {springIndex, summerIndex, autumnIndex, winterIndex}
       THEN [error |-> "missing season column"]
       ELSE [error |-> None,
             seasonalWeather |->
               [n \in {Trim(rows[i][1]) : i \in DOMAIN rows} |->
                  [spring |-> [conditions |-> parseConditions(Cell(lastRow(n), springIndex))],
                   summer |-> [conditions |-> parseConditions(Cell(lastRow(n), summerIndex))],
                   autumn |-> [conditions |-> parseConditions(Cell(lastRow(n), autumnIndex))],
                   winter |-> [conditions |-> parseConditions(Cell(lastRow(n), winterIndex))]]]]

\* parseMechanicalImpactsTable(data, startRow): condition -> impact string;
\* rows without a condition or without an impact are skipped, a later row of
\* the same condition overwrites an earlier one.
parseMechanicalImpactsTable(data, startRow) ==
    LET headers        == MapSeq(data[startRow], HeaderCell)
        conditionIndex == FindIndex(headers, LAMBDA h : h = "condition")
        impactIndex    == FindIndex(headers,
                            LAMBDA h : Includes(h, "mechanical") \/ Includes(h, "impact"))
        impactOf(row)  == IF Truthy(TrimCell(row, impactIndex))
                          THEN TrimCell(row, impactIndex) ELSE ""
        used           == {i \in (startRow + 1)..Len(data) :
                              /\ Truthy(TrimCell(data[i], conditionIndex))
                              /\ impactOf(data[i]) # ""}
        lastRow(c)     == data[CHOOSE i \in used :
                              /\ Trim(data[i][conditionIndex]) = c
                              /\ \A j \in used :
                                   Trim(data[j][conditionIndex]) = c => j <= i]
    IN IF conditionIndex = 0 \/ impactIndex = 0
       THEN [error |-> "missing column"]
       ELSE [error |-> None,
             mechanicalImpacts |->
               [c \in {Trim(data[i][conditionIndex]) : i \in used} |->
                  impactOf(lastRow(c))]]


\* parseWeatherRegions(data): finds the two tables by their header rows (the
\* last matching row wins) and parses both.
parseWeatherRegions(data) ==
    LET firstCell(row) == IF Cell(row, 1) = Undefined THEN ""
                          ELSE Trim(ToLowerCase(Cell(row, 1)))
        isWeatherHeader(i) ==
            /\ Len(data[i]) > 0
            /\ firstCell(data[i]) = "region"
            /\ Len(data[i]) >= 5
            /\ \E j \in DOMAIN data[i] : Includes(HeaderCell(data[i][j]), "spring")
            /\ \E j \in DOMAIN data[i] : Includes(HeaderCell(data[i][j]), "summer")
        isImpactHeader(i) ==
            /\ Len(data[i]) > 0
            /\ firstCell(data[i]) = "condition"
            /\ Len(data[i]) >= 2
            /\ \/ Includes(HeaderCell(Cell(data[i], 2)), "mechanical")
               \/ Includes(HeaderCell(Cell(data[i], 2)), "impact")
        last(S) == IF S = {} THEN 0 ELSE CHOOSE i \in S : \A j \in S : j <= i
        regionalWeatherStart   == last({i \in DOMAIN data : isWeatherHeader(i)})
        mechanicalImpactsStart == last({i \in DOMAIN data : isImpactHeader(i)})
    IN IF Len(data) < 2 THEN [error |-> "empty sheet"]
       ELSE IF regionalWeatherStart = 0 THEN [error |-> "missing regional weather table"]
       ELSE IF mechanicalImpactsStart = 0 THEN [error |-> "missing mechanical impacts table"]
       ELSE LET weather == parseRegionalWeatherTable(data, regionalWeatherStart,
                                                     mechanicalImpactsStart)
                impacts == parseMechanicalImpactsTable(data, mechanicalImpactsStart)
            IN IF weather.error # None THEN [error |-> weather.error]
               ELSE IF impacts.error # None THEN [error |-> impacts.error]
               ELSE [error |-> None,
                     seasonalWeather   |-> weather.seasonalWeather,
                     mechanicalImpacts |-> impacts.mechanicalImpacts]

\* EnrichSeason attaching the sheet's whole impact table to every season
EnrichSeason_wholeTable(seasonData, mechanicalImpacts) ==
    IF DOMAIN mechanicalImpacts = {}
    THEN [conditions |-> seasonData.conditions]
    ELSE [conditions |-> seasonData.conditions,
          mechanicalImpacts |-> [c \in DOMAIN mechanicalImpacts |-> <<mechanicalImpacts[c]>>]]

\* The season entry mergeConfiguration builds: the conditions, and a
\* mechanicalImpacts object only when some condition has an impact.
EnrichSeason(seasonData, mechanicalImpacts) ==
    LET withImpact == {c \in Range(seasonData.conditions) :
                          c \in DOMAIN mechanicalImpacts /\ mechanicalImpacts[c] # ""}
    IN IF withImpact = {}
       THEN [conditions |-> seasonData.conditions]
       ELSE [conditions |-> seasonData.conditions,
             mechanicalImpacts |-> [c \in withImpact |-> <<mechanicalImpacts[c]>>]]

\* mergeConfiguration leaving its loop at the first region without weather
\* data (break for continue)
mergeConfiguration_breakAtUnknown(regionWebhooks, seasonalWeather, mechanicalImpacts) ==
    LET firstUnknown == FindIndex(regionWebhooks, LAMBDA e : e.id \notin DOMAIN seasonalWeather)
        known == IF firstUnknown = 0 THEN regionWebhooks
                 ELSE SubSeq(regionWebhooks, 1, firstUnknown - 1)
    IN [i \in DOMAIN known |->
          [id   |-> known[i].id,
           data |-> [name |-> known[i].id,
                     webhookUrls |-> known[i].urls,
                     seasonalWeather |->
                       [s \in Range(Seasons) |->
                          EnrichSeason(seasonalWeather[known[i].id][s],
                                       mechanicalImpacts)]]]]

\* mergeConfiguration(regionWebhooks, seasonalWeather, mechanicalImpacts):
\* the regions with webhooks and weather data, in webhook-map order.
mergeConfiguration(regionWebhooks, seasonalWeather, mechanicalImpacts) ==
    LET known == SelectSeq(regionWebhooks, LAMBDA e : e.id \in DOMAIN seasonalWeather)
    IN [i \in DOMAIN known |->
          [id   |-> known[i].id,
           data |-> [name |-> known[i].id,
                     webhookUrls |-> known[i].urls,
                     seasonalWeather |->
                       [s \in Range(Seasons) |->
                          EnrichSeason(seasonalWeather[known[i].id][s],
                                       mechanicalImpacts)]]]]

\* The "Weather Regions" sheet of README.md, with a region whose winter cell
\* is blank (the row ends before it) and cells with padded or empty items.
WeatherRegionsSheet ==
    << <<"Region", "Spring Weather", "Summer Weather", "Autumn Weather", "Winter Weather">>,
       <<"Northern Eparchia", "Mild day, Showers, Fog", "Hot and sunny, Storms",
         "Crisp day, Rain", "Snow , Blizzard">>,
       <<"Southern Highlands", "Mountain mist, Cool", "Alpine summer", "Early frost, ">>,
       <<>>,
       <<"Condition", "Mechanical Impact">>,
       <<"Blizzard", "Blinded beyond 15ft, extreme cold">>,
       <<"Storms", "Disadvantage on Perception checks">>,
       <<"Showers", "Light rain: -1 to ranged attacks beyond 30ft">>,
       <<"Heavy snowfall", "Difficult terrain outdoors, -2 to Perception">> >>

\* parseCommanderDatabase's result for the "Commander Database" sheet of README.md
CommanderWebhooks ==
    << [id |-> "Northern Eparchia",
        urls |-> <<"https://discord.test/hook/1", "https://discord.test/hook/2">>],
       [id |-> "Southern Highlands", urls |-> <<"https://discord.test/hook/3">>] >>

\* The loop of parseCommanderDatabase over the rows from row i on: the map of
\* region name -> webhook URLs, kept in key insertion order
RECURSIVE GroupWebhooks(_, _, _, _, _)
GroupWebhooks(data, i, webhookUrlIndex, regionIndex, regionWebhooks) ==
    IF i > Len(data) THEN regionWebhooks
    ELSE LET webhookUrl == TrimCell(data[i], webhookUrlIndex)
             region     == TrimCell(data[i], regionIndex)
             at         == FindIndex(regionWebhooks, LAMBDA e : e.id = region)
             next ==
                 IF ~Truthy(webhookUrl) \/ ~Truthy(region) THEN regionWebhooks
                 ELSE IF at = 0
                      THEN Append(regionWebhooks, [id |-> region, urls |-> <<webhookUrl>>])
                 ELSE IF webhookUrl \in Range(regionWebhooks[at].urls) THEN regionWebhooks
                 ELSE [regionWebhooks EXCEPT ![at].urls = Append(@, webhookUrl)]
         IN GroupWebhooks(data, i + 1, webhookUrlIndex, regionIndex, next)

\* parseCommanderDatabase whose loop starts at the header row
parseCommanderDatabase_fromHeader(data) ==
    IF Len(data) < 2 THEN [error |-> None, regionWebhooks |-> <<>>]
    ELSE LET headers == MapSeq(data[1], LAMBDA h : Trim(ToLowerCase(h)))
             webhookUrlIndex ==
                 FindIndex(headers, LAMBDA h : Includes(h, "webhook") /\ Includes(h, "url"))
             regionIndex ==
                 FindIndex(headers, LAMBDA h : Includes(h, "weather") /\ Includes(h, "region"))
         IN IF webhookUrlIndex = 0 THEN [error |-> "missing Webhook URL column"]
            ELSE IF regionIndex = 0 THEN [error |-> "missing Weather Region column"]
            ELSE [error |-> None,
                  regionWebhooks |->
                    GroupWebhooks(data, 1, webhookUrlIndex, regionIndex, <<>>)]

\* parseCommanderDatabase(data): the columns are found by their header cells;
\* an error when a column is missing (the code throws)
parseCommanderDatabase(data) ==
    IF Len(data) < 2 THEN [error |-> None, regionWebhooks |-> <<>>]
    ELSE LET headers == MapSeq(data[1], LAMBDA h : Trim(ToLowerCase(h)))
             webhookUrlIndex ==
                 FindIndex(headers, LAMBDA h : Includes(h, "webhook") /\ Includes(h, "url"))
             regionIndex ==
                 FindIndex(headers, LAMBDA h : Includes(h, "weather") /\ Includes(h, "region"))
         IN IF webhookUrlIndex = 0 THEN [error |-> "missing Webhook URL column"]
            ELSE IF regionIndex = 0 THEN [error |-> "missing Weather Region column"]
            ELSE [error |-> None,
                  regionWebhooks |->
                    GroupWebhooks(data, 2, webhookUrlIndex, regionIndex, <<>>)]

\* What fetchConfiguration builds from the two sheets: { regions }
SheetRegions ==
    LET parsed == parseWeatherRegions(WeatherRegionsSheet)
    IN mergeConfiguration(CommanderWebhooks, parsed.seasonalWeather,
                          parsed.mechanicalImpacts)


(***************************************************************************)
(* Region configurations held in regionsConfig.regions (config.js).        *)
(***************************************************************************)
\* test-webhook.js: mockRegionsConfig["Northern Eparchia"].seasonalWeather
NorthernSeasonalWeather ==
    [spring |-> [conditions |-> <<"Mild spring day", "Spring showers", "Warming breezes",
                                  "Gentle rains", "Overcast and cool">>,
                 mechanicalImpacts |->
                   ("Spring showers" :> <<"Light rain: -1 to ranged attacks beyond 30ft">>)],
     summer |-> [conditions |-> <<"Hot and sunny", "Warm summer day", "Thunderstorms",
                                  "Humid and hazy", "Clear skies">>,
                 mechanicalImpacts |->
                   ("Thunderstorms" :>
                      <<"Heavy rain and lightning: disadvantage on Perception checks">>)],
     autumn |-> [conditions |-> <<"Crisp autumn day", "Fall rains", "Overcast skies",
                                  "Chilly winds", "Foggy morning">>,
                 mechanicalImpacts |->
                   ("Foggy morning" :> <<"Heavy obscurement beyond 60ft until midday">>)],
     winter |-> [conditions |-> <<"Cold and clear", "Light snow", "Heavy snowfall",
                                  "Freezing rain", "Bitter cold">>,
                 mechanicalImpacts |->
                   ("Heavy snowfall" :> <<"Difficult terrain outdoors, -2 to Perception">>)
                   @@ ("Freezing rain" :>
                         <<"Slippery surfaces: DEX save or fall prone when moving fast">>)]]

\* test-webhook.js: mockRegionsConfig["Southern Highlands"].seasonalWeather
SouthernSeasonalWeather ==
    [spring |-> [conditions |-> <<"Highland spring", "Mountain mist", "Cool mornings">>],
     summer |-> [conditions |-> <<"Alpine summer", "Clear mountain air", "Afternoon storms">>],
     autumn |-> [conditions |-> <<"Early frost", "Autumn winds", "Clear days">>],
     winter |-> [conditions |-> <<"Deep snow", "Mountain blizzard", "Frozen peaks">>,
                 mechanicalImpacts |->
                   ("Mountain blizzard" :>
                      <<"Blinded beyond 15ft, difficult terrain, extreme cold">>)]]

\* A regions.json in the shape of CHANNEL-CONFIGURATION.md / part_000: region
\* ids that differ from the display names, advance webhooks on one region.
JsonRegions ==
    << [id |-> "northern_eparchia",
        data |-> [name |-> "Northern Eparchia",
                  webhookUrls |-> <<"https://discord.test/hook/1">>,
                  advanceWebhookUrls |-> <<"https://discord.test/adv/1",
                                           "https://discord.test/adv/2">>,
                  seasonalWeather |-> NorthernSeasonalWeather]],
       [id |-> "southern_highlands",
        data |-> [name |-> "Southern Highlands",
                  webhookUrls |-> <<"https://discord.test/hook/3">>,
                  seasonalWeather |-> SouthernSeasonalWeather]] >>

\* JSON values that are not strings (a number, null) where a URL is expected
NonStrings == {"#42", "#null"}

\* url && typeof url === "string"
IsUrlString(url) == url \notin NonStrings /\ Truthy(url)

RegionIndex(regionId) ==
    FindIndex(regionsConfig, LAMBDA e : e.id = regionId)

\* getConfiguredRegions(): the regions with a non-empty webhookUrls array or a
\* truthy webhookUrl, as { id, ...region }, in configuration order.
getConfiguredRegions ==
    LET configured ==
          SelectSeq(regionsConfig,
            LAMBDA e : \/ (Has(e.data, "webhookUrls") /\ Len(e.data.webhookUrls) > 0)
                       \/ (Has(e.data, "webhookUrl") /\ e.data.webhookUrl \notin {"", "#null"}))
    IN [i \in DOMAIN configured |->
          [f \in DOMAIN configured[i].data \cup {"id"} |->
             IF f \in DOMAIN configured[i].data THEN configured[i].data[f]
             ELSE configured[i].id]]

\* getRegionConfig(regionId): throws for an unknown region or one without a
\* usable webhook URL; otherwise { id, ...region, webhookUrls, advanceWebhookUrls }
\* with both lists normalised to arrays of non-empty strings.
getRegionConfig(regionId) ==
    IF RegionIndex(regionId) = 0
    THEN [error |-> "region not found"]
    ELSE
      LET region == regionsConfig[RegionIndex(regionId)].data
          webhookUrls ==
            IF Has(region, "webhookUrls")
            THEN SelectSeq(region.webhookUrls, IsUrlString)
            ELSE IF Has(region, "webhookUrl") /\ IsUrlString(region.webhookUrl)
            THEN <<region.webhookUrl>>
            ELSE <<>>
          advanceWebhookUrls ==
            IF Has(region, "advanceWebhookUrls")
            THEN SelectSeq(region.advanceWebhookUrls, IsUrlString)
            ELSE <<>>
      IN IF Len(webhookUrls) = 0
         THEN [error |-> "no webhook URLs configured"]
         ELSE [error |-> None,
               config |->
                 [f \in DOMAIN region \cup {"id", "webhookUrls", "advanceWebhookUrls"} |->
                    CASE f = "webhookUrls" -> webhookUrls
                      [] f = "advanceWebhookUrls" -> advanceWebhookUrls
                      [] f = "id" /\ ~Has(region, "id") -> regionId
                      [] OTHER -> region[f]]]

(***************************************************************************)
(* weatherService: the deterministic generator.                            *)
(***************************************************************************)
\* Seasons that begin one month late: March is still summer, June autumn, ...
getSeason_lateStart(date) ==
    CASE date.month \in {1, 2, 3}  -> "summer"
      [] date.month \in {4, 5, 6}  -> "autumn"
      [] date.month \in {7, 8, 9}  -> "winter"
      [] OTHER                     -> "spring"

\* Month -> season, Southern Hemisphere (README.md, "Weather Generation")
getSeason(date) ==
    CASE date.month \in {12, 1, 2} -> "summer"
      [] date.month \in {3, 4, 5}  -> "autumn"
      [] date.month \in {6, 7, 8}  -> "winter"
      [] OTHER                     -> "spring"

\* A stable hash of the region identifier, kept to 24 bits
RECURSIVE HashCodes(_, _)
HashCodes(codes, h) ==
    IF codes = <<>> THEN h
    ELSE HashCodes(Tail(codes), (h * 31 + Head(codes)) % 16777216)

hashString(str) == HashCodes(CharCodes(str), 0)

\* The seed of a (date, region) pair: the date as yyyymmdd plus the id's hash
getSeed(date, regionId) ==
    date.year * 10000 + date.month * 100 + date.day + hashString(regionId)

\* One draw of the generator seeded with seed: an integer x in 0..65535 that
\* stands for the value x / 65536 in [0, 1)
seededRandom(seed) == ((seed % 65536) * 25173 + 13849) % 65536

\* floor(value * length), clamped to length - 1; 1-based here
selectIndex(seed, length) ==
    LET raw == (seededRandom(seed) * length) \div 65536
    IN (IF raw > length - 1 THEN length - 1 ELSE raw) + 1

\* getImpacts that never finds the condition's entry
getImpacts_none(seasonData, condition) == <<>>

\* The impacts of a condition: the season's list for it, or none
getImpacts(seasonData, condition) ==
    IF Has(seasonData, "mechanicalImpacts") /\ condition \in DOMAIN seasonData.mechanicalImpacts
    THEN seasonData.mechanicalImpacts[condition]
    ELSE <<>>

\* getWeatherForDate reading the spring table whatever the season
getWeatherForDate_springTable(date, seasonalWeather, regionId) ==
    LET season     == getSeason(date)
        seasonData == seasonalWeather.spring
        conditions == seasonData.conditions
        condition  == conditions[selectIndex(getSeed(date, regionId), Len(conditions))]
    IN IF Len(conditions) = 0
       THEN [error |-> "ConfigurationError", region |-> regionId, season |-> season]
       ELSE [error |-> None, date |-> date, season |-> season,
             condition |-> condition,
             impacts |-> getImpacts(seasonData, condition)]

\* getWeatherForDate(date, seasonalWeather, regionId)
getWeatherForDate(date, seasonalWeather, regionId) ==
    LET season     == getSeason(date)
        seasonData == seasonalWeather[season]
        conditions == seasonData.conditions
        condition  == conditions[selectIndex(getSeed(date, regionId), Len(conditions))]
    IN IF Len(conditions) = 0
       THEN [error |-> "ConfigurationError", region |-> regionId, season |-> season]
       ELSE [error |-> None, date |-> date, season |-> season,
             condition |-> condition,
             impacts |-> getImpacts(seasonData, condition)]

\* getRegionalWeatherUpdate(regionConfig): today's weather
getRegionalWeatherUpdate(regionConfig) ==
    getWeatherForDate(today, regionConfig.seasonalWeather, regionConfig.id)

\* getRegionalAdvanceForecast seeding with the display name instead of the id
getRegionalAdvanceForecast_byName(regionConfig) ==
    getWeatherForDate(setDate(today, today.day + 1),
                      regionConfig.seasonalWeather, regionConfig.name)

\* getRegionalAdvanceForecast adding a day without the month roll-over
getRegionalAdvanceForecast_noRollOver(regionConfig) ==
    getWeatherForDate([today EXCEPT !.day = today.day + 1],
                      regionConfig.seasonalWeather, regionConfig.id)

\* getRegionalAdvanceForecast(regionConfig): tomorrow's weather
getRegionalAdvanceForecast(regionConfig) ==
    getWeatherForDate(setDate(today, today.day + 1),
                      regionConfig.seasonalWeather, regionConfig.id)

\* The single-day results of the days today + k .. today + 6, in order
RECURSIVE WindowDays(_, _)
WindowDays(regionConfig, k) ==
    IF k > 6 THEN <<>>
    ELSE <<getWeatherForDate(AddDays(today, k), regionConfig.seasonalWeather,
                             regionConfig.id)>>
         \o WindowDays(regionConfig, k + 1)

\* getRegionalWeeklyForecast whose window starts tomorrow
getRegionalWeeklyForecast_fromTomorrow(regionConfig) ==
    LET gen == WindowDays(regionConfig, 1)
              \o <<getWeatherForDate(AddDays(today, 7), regionConfig.seasonalWeather,
                                     regionConfig.id)>>
    IN IF \E i \in DOMAIN gen : gen[i].error # None
       THEN gen[CHOOSE i \in DOMAIN gen : gen[i].error # None]
       ELSE [error |-> None,
             entries |-> [i \in DOMAIN gen |->
                            [date |-> gen[i].date,
                             dayOfWeek |-> WeekdayNames[getDay(gen[i].date) + 1],
                             season |-> gen[i].season,
                             condition |-> gen[i].condition,
                             impacts |-> gen[i].impacts]]]

\* getRegionalWeeklyForecast(regionConfig): the 7 days from today, each with
\* its weekday name; a day that cannot be generated fails the whole window.
getRegionalWeeklyForecast(regionConfig) ==
    LET gen     == WindowDays(regionConfig, 0)
        failing == {i \in DOMAIN gen : gen[i].error # None}
    IN IF failing # {}
       THEN gen[CHOOSE i \in failing : \A j \in failing : i <= j]
       ELSE [error |-> None,
             entries |-> [i \in DOMAIN gen |->
                            [date |-> gen[i].date,
                             dayOfWeek |-> WeekdayNames[getDay(gen[i].date) + 1],
                             season |-> gen[i].season,
                             condition |-> gen[i].condition,
                             impacts |-> gen[i].impacts]]]

(***************************************************************************)
(* The generation paths: the clock advances between runs; a daily, an      *)
(* advance or a weekly generation is made for a resolved region.  calls    *)
(* keeps the two latest generation calls.                                  *)
(***************************************************************************)
NoCall == [path |-> "none"]
NullConfig == [obj |-> 0]
IdleJob == [kind |-> "idle"]

StartDates ==
    { Date(2024, 2, 27), Date(2024, 12, 29), Date(2025, 2, 26), Date(2025, 8, 29) }

CacheIdle ==
    /\ cachedConfig = NullConfig
    /\ sheetReads = 0
    /\ nextObj = 1
    /\ cacheClears = 0
    /\ fetchCalls = <<>>

JobIdle ==
    /\ job = IdleJob
    /\ posts = <<>>
    /\ exitCode = "running"

NoInput == [kind |-> "none"]
NoResult == [kind |-> "none"]

FnIdle ==
    /\ input = NoInput
    /\ result = NoResult

Init ==
    /\ regionsConfig \in {JsonRegions, SheetRegions}
    /\ today \in StartDates
    /\ calls = <<NoCall, NoCall>>
    /\ ticks = 0
    /\ CacheIdle
    /\ JobIdle
    /\ FnIdle

Record(path, regionId, out) ==
    /\ calls' = <<calls[2],
                  [path |-> path, runDate |-> today, region |-> regionId, out |-> out]>>
    /\ UNCHANGED <<regionsConfig, today, ticks>>
    /\ UNCHANGED <<cacheVars, jobVars, fnVars>>

\* Time passes between two runs of the job
Tick(n) ==
    /\ ticks < MaxTicks
    /\ today' = AddDays(today, n)
    /\ ticks' = ticks + 1
    /\ UNCHANGED <<regionsConfig, calls>>
    /\ UNCHANGED <<cacheVars, jobVars, fnVars>>

\* webhook.js: today's weather of a region
Daily(regionId) ==
    LET resolved == getRegionConfig(regionId)
    IN /\ resolved.error = None
       /\ Record("daily", regionId, getRegionalWeatherUpdate(resolved.config))

\* advance-webhook.js: tomorrow's weather of a region
Advance(regionId) ==
    LET resolved == getRegionConfig(regionId)
    IN /\ resolved.error = None
       /\ Record("advance", regionId, getRegionalAdvanceForecast(resolved.config))

\* weekly-webhook.js: the 7-day window of a region
Weekly(regionId) ==
    LET resolved == getRegionConfig(regionId)
    IN /\ resolved.error = None
       /\ Record("weekly", regionId, getRegionalWeeklyForecast(resolved.config))

RegionIds == {regionsConfig[i].id : i \in DOMAIN regionsConfig}

Next ==
    \/ \E n \in 1..MaxJump : Tick(n)
    \/ \E id \in RegionIds : Daily(id)
    \/ \E id \in RegionIds : Advance(id)
    \/ \E id \in RegionIds : Weekly(id)

Spec == Init /\ [][Next]_vars

(***************************************************************************)
(* Helpers of the properties.                                              *)
(***************************************************************************)
\* The day number of a calendar date (Julian day number), computed without
\* setDate: consecutive calendar days have consecutive day numbers.
DayNumber(date) ==
    LET a == (14 - date.month) \div 12
        y == date.year + 4800 - a
        m == date.month + 12 * a - 3
    IN date.day + (153 * m + 2) \div 5 + 365 * y + y \div 4 - y \div 100 + y \div 400 - 32045

\* Day number 0 is a Monday
WeekdayOfDayNumber(n) == WeekdayNames[((n + 1) % 7) + 1]

MadeCalls == {c \in Range(calls) : c.path # "none"}

\* The stored (unresolved) configuration of a region
RegionData(regionId) == regionsConfig[RegionIndex(regionId)].data

\* The single-day results a generation call returned, each with its region
Outputs(c) ==
    IF c.path = "none" \/ c.out.error # None THEN {}
    ELSE IF c.path = "weekly"
    THEN {[region |-> c.region, date |-> c.out.entries[i].date,
           season |-> c.out.entries[i].season,
           condition |-> c.out.entries[i].condition,
           impacts |-> c.out.entries[i].impacts] : i \in DOMAIN c.out.entries}
    ELSE {[region |-> c.region, date |-> c.out.date, season |-> c.out.season,
           condition |-> c.out.condition, impacts |-> c.out.impacts]}

AllOutputs == UNION {Outputs(c) : c \in MadeCalls}

\* The calendar days a call generated weather for, as day numbers
TargetDays(c) ==
    CASE c.path = "daily"   -> {DayNumber(c.runDate)}
      [] c.path = "advance" -> {DayNumber(c.runDate) + 1}
      [] c.path = "weekly"  -> {DayNumber(c.runDate) + k : k \in 0..6}
      [] OTHER              -> {}

C2_AdvanceIsNextDaily ==
    \A c1, c2 \in MadeCalls :
        (/\ c1.path = "advance" /\ c2.path = "daily"
         /\ c1.region = c2.region
         /\ DayNumber(c2.runDate) = DayNumber(c1.runDate) + 1)
            => c1.out = c2.out

\* An advance forecast made on 31 December and the daily one of 1 January
C2_Witness ==
    \E c1, c2 \in MadeCalls :
        /\ c1.path = "advance" /\ c2.path = "daily"
        /\ c1.region = c2.region
        /\ c1.runDate = Date(2024, 12, 31) /\ c2.runDate = Date(2025, 1, 1)
        /\ c1.out.error = None
        /\ c1.out.date = Date(2025, 1, 1)

\* C3: a weekly forecast started on day D has 7 entries; entry k is for day
\* D + k and carries that day's weekday name; its season, condition and
\* impacts are those of every single-day generation (and of every other
\* window) for the same region and day.
C3_WeeklyWindow ==
    \A w \in MadeCalls :
        (w.path = "weekly" /\ w.out.error = None) =>
            /\ Len(w.out.entries) = 7
            /\ \A k \in 0..6 :
                 LET e == w.out.entries[k + 1]
                     day == DayNumber(w.runDate) + k
                 IN /\ DayNumber(e.date) = day
                    /\ e.dayOfWeek = WeekdayOfDayNumber(day)
                    /\ \A c \in MadeCalls : \A o \in Outputs(c) :
                         (o.region = w.region /\ o.date = e.date)
                            => (o.season = e.season /\ o.condition = e.condition
                                /\ o.impacts = e.impacts)

\* A weekly window and the daily generation of its last day, six days later
C3_Witness ==
    \E w, d \in MadeCalls :
        /\ w.path = "weekly" /\ d.path = "daily"
        /\ w.region = d.region
        /\ w.out.error = None /\ d.out.error = None
        /\ DayNumber(d.runDate) = DayNumber(w.runDate) + 6

\* The sheet row of a region, and whether its cell of a season is blank
SheetRowOf(regionId) ==
    CHOOSE row \in Range(WeatherRegionsSheet) : Len(row) > 0 /\ row[1] = regionId

BlankSheetCell(regionId, season) ==
    LET column == CHOOSE i \in 1..4 : Seasons[i] = season
    IN Cell(SheetRowOf(regionId), column + 1) \in {Undefined, ""}

\* The seasons of the days a call generated weather for
TargetSeasons(c) ==
    CASE c.path = "daily"   -> {getSeason(c.runDate)}
      [] c.path = "advance" -> {getSeason(AddDays(c.runDate, 1))}
      [] c.path = "weekly"  -> {getSeason(AddDays(c.runDate, k)) : k \in 0..6}
      [] OTHER              -> {}

\* C4: a generation for a region whose table of the date's season has no
\* conditions (as a blank sheet cell produces) fails with a ConfigurationError
\* that names the region and the season, and returns no condition.
C4_EmptyTableFails ==
    \A c \in MadeCalls :
        LET targetSeasons == TargetSeasons(c)
        IN \A s \in targetSeasons :
            (\/ Len(RegionData(c.region).seasonalWeather[s].conditions) = 0
             \/ (regionsConfig = SheetRegions /\ BlankSheetCell(c.region, s)))
                => /\ c.out.error = "ConfigurationError"
                   /\ c.out.region = c.region
                   /\ c.out.season \in targetSeasons
                   /\ Len(RegionData(c.region).seasonalWeather[c.out.season].conditions) = 0
                   /\ ~Has(c.out, "condition")
                   /\ ~Has(c.out, "entries")

\* A daily generation for the sheet region whose winter cell is blank, in winter
C4_Witness ==
    \E c \in MadeCalls :
        /\ c.path = "daily"
        /\ regionsConfig = SheetRegions
        /\ c.region = "Southern Highlands"
        /\ getSeason(c.runDate) = "winter"
        /\ BlankSheetCell(c.region, "winter")
        /\ c.out.error = "ConfigurationError"

\* Month -> season as README.md states it (Southern Hemisphere)
SeasonOfMonth ==
    <<"summer", "summer", "autumn", "autumn", "autumn", "winter", "winter", "winter",
      "spring", "spring", "spring", "summer">>

\* C6: a returned condition is an element of the conditions list of that
\* region for the season of the date (at an index within the list), and the
\* returned season is one of the four seasons.
C6_ConditionInTable ==
    \A o \in AllOutputs :
        LET conditions == RegionData(o.region).seasonalWeather[SeasonOfMonth[o.date.month]].conditions
        IN /\ o.season \in {"spring", "summer", "autumn", "winter"}
           /\ o.season = SeasonOfMonth[o.date.month]
           /\ \E i \in 1..Len(conditions) : conditions[i] = o.condition

\* Results for both regions of a configuration, in two different seasons
C6_Witness ==
    \E o1, o2 \in AllOutputs :
        /\ o1.region # o2.region
        /\ o1.season # o2.season

\* C7: the impacts of a result are the list the season's impact mapping holds
\* for the selected condition, and the empty list when the season has no
\* mapping or the mapping has no entry for the condition.
C7_ImpactsOfCondition ==
    \A o \in AllOutputs :
        LET seasonData == RegionData(o.region).seasonalWeather[o.season]
        IN IF Has(seasonData, "mechanicalImpacts")
              /\ o.condition \in DOMAIN seasonData.mechanicalImpacts
           THEN o.impacts = seasonData.mechanicalImpacts[o.condition]
           ELSE o.impacts = <<>>

\* A result with impacts, and one without impacts in a season that has a mapping
C7_Witness ==
    \E o1, o2 \in AllOutputs :
        /\ o1.impacts # <<>>
        /\ o2.impacts = <<>>
        /\ Has(RegionData(o2.region).seasonalWeather[o2.season], "mechanicalImpacts")

(***************************************************************************)
(* The advance-forecast jobs: the per-region job of advance-webhook.js and *)
(* the consolidated job (one message for all regions, posted to the        *)
(* webhooks of ADVANCE_WEBHOOK_URLS).                                      *)
(***************************************************************************)
\* A regions.json with regions that cannot be resolved or generated: a legacy
\* region whose webhookUrls array is empty beside a webhookUrl string, a
\* region whose winter table is empty, a region with no advance webhooks and
\* one with no webhook at all.
BrokenRegions ==
    << [id |-> "legacy_coast",
        data |-> [name |-> "Legacy Coast",
                  webhookUrls |-> <<>>,
                  webhookUrl |-> "https://discord.test/hook/9",
                  advanceWebhookUrls |-> <<"https://discord.test/adv/9">>,
                  seasonalWeather |-> SouthernSeasonalWeather]],
       [id |-> "northern_eparchia",
        data |-> [name |-> "Northern Eparchia",
                  webhookUrls |-> <<"https://discord.test/hook/1">>,
                  advanceWebhookUrls |-> <<"https://discord.test/adv/1", "#42",
                                           "https://discord.test/adv/2">>,
                  seasonalWeather |-> NorthernSeasonalWeather]],
       [id |-> "frozen_march",
        data |-> [name |-> "",
                  webhookUrls |-> <<"https://discord.test/hook/4">>,
                  advanceWebhookUrls |-> <<"https://discord.test/adv/4">>,
                  seasonalWeather |->
                    [SouthernSeasonalWeather EXCEPT !.winter = [conditions |-> <<>>]]]],
       [id |-> "southern_highlands",
        data |-> [name |-> "Southern Highlands",
                  webhookUrls |-> <<"https://discord.test/hook/3">>,
                  advanceWebhookUrls |-> <<>>,
                  seasonalWeather |-> SouthernSeasonalWeather]],
       [id |-> "unlisted",
        data |-> [name |-> "Unlisted",
                  webhookUrls |-> <<>>,
                  seasonalWeather |-> SouthernSeasonalWeather]] >>

\* A configuration none of whose regions has advance webhooks
SkippedRegions == <<JsonRegions[2]>>

\* A region still carrying the single webhookUrl of the old format next to an
\* empty webhookUrls array, without advance webhooks, and a regular region
LegacyRegions ==
    << [id |-> "old_harbour",
        data |-> [name |-> "Old Harbour",
                  webhookUrls |-> <<>>,
                  webhookUrl |-> "https://discord.test/hook/7",
                  seasonalWeather |-> SouthernSeasonalWeather]],
       JsonRegions[1] >>

JobConfigs == {JsonRegions, BrokenRegions, SkippedRegions, LegacyRegions, <<>>}

JobDates == { Date(2025, 8, 30), Date(2024, 12, 31) }

\* Values of the ADVANCE_WEBHOOK_URLS environment variable
AdvanceEnvs ==
    { Undefined, " , ", "https://discord.test/adv/1,",
      "https://discord.test/adv/1, https://discord.test/adv/2" }

\* getAdvanceWebhookUrls(): the trimmed, non-empty items of ADVANCE_WEBHOOK_URLS
getAdvanceWebhookUrls(urlsString) ==
    IF ~Truthy(urlsString) THEN <<>>
    ELSE SelectSeq(MapSeq(Split(urlsString), Trim), LAMBDA url : url # "")

\* What axios.post may do: answer with a status, or throw
PostOutcomes ==
    { [threw |-> FALSE, status |-> 204], [threw |-> FALSE, status |-> 200],
      [threw |-> FALSE, status |-> 500], [threw |-> TRUE, status |-> 0] }

\* season.charAt(0).toUpperCase() + season.slice(1)
Capitalize(season) ==
    CASE season = "spring" -> "Spring"
      [] season = "summer" -> "Summer"
      [] season = "autumn" -> "Autumn"
      [] season = "winter" -> "Winter"
      [] OTHER -> season

\* getWeatherEmoji(condition, isNight): the emoji of the condition, in its
\* night variant when isNight and in its day variant otherwise
getWeatherEmoji(condition, isNight) ==
    [of |-> condition, variant |-> IF isNight THEN "night" ELSE "day"]

\* The lines of a forecast: date, season, weather, one line per impact; the
\* weather line starts with getWeatherEmoji(weather.condition, false)
ForecastLines(weather) ==
    << [tag |-> "date", date |-> weather.date],
       [tag |-> "season", text |-> Capitalize(weather.season)],
       [tag |-> "weather", text |-> weather.condition,
        emoji |-> getWeatherEmoji(weather.condition, FALSE)] >>
    \o [i \in DOMAIN weather.impacts |-> [tag |-> "impact", text |-> weather.impacts[i]]]

\* sendRegionalAdvanceForecastWebhook: the message of one region
RegionMessage(regionConfig, weather) ==
    << [tag |-> "title", text |-> regionConfig.name] >> \o ForecastLines(weather)

\* RegionSection whose catch block adds nothing to the message
RegionSection_silent(region) ==
    LET resolved == getRegionConfig(region.id)
        weather  == getRegionalAdvanceForecast(resolved.config)
    IN IF resolved.error # None \/ weather.error # None
       THEN <<>>
       ELSE << [tag |-> "region", text |-> resolved.config.name] >>
            \o ForecastLines(weather)
            \o << [tag |-> "separator", text |-> ""] >>

\* One section of the consolidated message: the forecast of the region, or
\* the error placeholder when resolving or generating it throws.
RegionSection(region) ==
    LET resolved == getRegionConfig(region.id)
        weather  == getRegionalAdvanceForecast(resolved.config)
    IN IF resolved.error # None \/ weather.error # None
       THEN << [tag |-> "region",
                text |-> IF region.name # "" THEN region.name ELSE region.id],
               [tag |-> "error", text |-> "Error generating forecast for this region"],
               [tag |-> "separator", text |-> ""] >>
       ELSE << [tag |-> "region", text |-> resolved.config.name] >>
            \o ForecastLines(weather)
            \o << [tag |-> "separator", text |-> ""] >>

RECURSIVE Sections(_)
Sections(regions) ==
    IF regions = <<>> THEN <<>>
    ELSE RegionSection(Head(regions)) \o Sections(Tail(regions))

\* The consolidated message: header, one section per configured region, footer
ConsolidatedMessage(configuredRegions) ==
    << [tag |-> "header", text |-> "Tomorrow's Weather Forecast - All Regions"] >>
    \o Sections(configuredRegions)
    \o << [tag |-> "footer",
           text |-> "Advance weather forecast for tomorrow - all campaign regions"] >>

\* results.filter((r) => !r.success).length
Failed(results) == Len(SelectSeq(results, LAMBDA r : ~r.success))

NewJob(kind) ==
    [kind |-> kind, pc |-> "done", threw |-> FALSE, env |-> Undefined,
     r |-> 0, urls |-> <<>>, i |-> 0, content |-> <<>>,
     results |-> <<>>, regionResults |-> <<>>, skippedCount |-> 0]

JobFrame == UNCHANGED <<genVars, cacheVars, fnVars>>

JobInit ==
    /\ regionsConfig \in JobConfigs
    /\ today \in JobDates
    /\ calls = <<NoCall, NoCall>>
    /\ ticks = 0
    /\ CacheIdle
    /\ JobIdle
    /\ FnIdle

\* The loop of sendAllRegionalAdvanceForecasts (advance-webhook.js) moves to
\* the next configured region, or to the summary after the last one.
NextRegion(j) ==
    IF j.r < Len(getConfiguredRegions)
    THEN [j EXCEPT !.pc = "region", !.r = j.r + 1]
    ELSE [j EXCEPT !.pc = "summary"]

\* advance-webhook.js: sendAllRegionalAdvanceForecasts() starts.  threw: an
\* exception escapes the batch (thrown by the configuration or the logger).
StartPerRegion(threw) ==
    /\ job.kind = "idle"
    /\ posts' = posts
    /\ IF threw
       THEN /\ job' = [NewJob("perRegion") EXCEPT !.threw = TRUE]
            /\ exitCode' = "exit1"
       ELSE IF Len(getConfiguredRegions) = 0
       THEN /\ job' = NewJob("perRegion")
            /\ exitCode' = "exit0"
       ELSE /\ job' = [NewJob("perRegion") EXCEPT !.pc = "region", !.r = 1]
            /\ exitCode' = exitCode
    /\ JobFrame

\* BeginRegion with a getRegionConfig that normalises the stored region in
\* place instead of building a new object
BeginRegion_normaliseStored ==
    /\ job.kind = "perRegion" /\ job.pc = "region"
    /\ LET region   == getConfiguredRegions[job.r]
           resolved == getRegionConfig(region.id)
           weather  == getRegionalAdvanceForecast(resolved.config)
           failure  == [regionId |-> region.id, success |-> FALSE, skipped |-> FALSE]
           skip     == [regionId |-> region.id, success |-> TRUE, skipped |-> TRUE]
           stored   == FindIndex(regionsConfig, LAMBDA e : e.id = region.id)
       IN /\ regionsConfig' = IF resolved.error # None THEN regionsConfig
                              ELSE [regionsConfig EXCEPT ![stored].data = resolved.config]
          /\ IF resolved.error # None
             THEN job' = NextRegion([job EXCEPT !.regionResults = Append(@, failure)])
             ELSE IF Len(resolved.config.advanceWebhookUrls) = 0
             THEN job' = NextRegion([job EXCEPT !.regionResults = Append(@, skip),
                                                !.skippedCount = @ + 1])
             ELSE IF weather.error # None
             THEN job' = NextRegion([job EXCEPT !.regionResults = Append(@, failure)])
             ELSE job' = [job EXCEPT !.pc = "post",
                                     !.urls = resolved.config.advanceWebhookUrls,
                                     !.i = 1,
                                     !.results = <<>>,
                                     !.content = RegionMessage(resolved.config, weather)]
    /\ UNCHANGED <<posts, exitCode, today, calls, ticks>>
    /\ UNCHANGED <<cacheVars, fnVars>>

\* sendRegionalAdvanceForecastWebhook(region.id) up to its first post: the
\* region is resolved, skipped when it has no advance webhooks, its forecast
\* generated and its message built; a throw is caught by the batch loop.
BeginRegion ==
    /\ job.kind = "perRegion" /\ job.pc = "region"
    /\ LET region   == getConfiguredRegions[job.r]
           resolved == getRegionConfig(region.id)
           weather  == getRegionalAdvanceForecast(resolved.config)
           failure  == [regionId |-> region.id, success |-> FALSE, skipped |-> FALSE]
           skip     == [regionId |-> region.id, success |-> TRUE, skipped |-> TRUE]
       IN IF resolved.error # None
          THEN job' = NextRegion([job EXCEPT !.regionResults = Append(@, failure)])
          ELSE IF Len(resolved.config.advanceWebhookUrls) = 0
          THEN job' = NextRegion([job EXCEPT !.regionResults = Append(@, skip),
                                             !.skippedCount = @ + 1])
          ELSE IF weather.error # None
          THEN job' = NextRegion([job EXCEPT !.regionResults = Append(@, failure)])
          ELSE job' = [job EXCEPT !.pc = "post",
                                  !.urls = resolved.config.advanceWebhookUrls,
                                  !.i = 1,
                                  !.results = <<>>,
                                  !.content = RegionMessage(resolved.config, weather)]
    /\ UNCHANGED <<posts, exitCode>>
    /\ JobFrame

\* StartConsolidated without the early return for an empty region list
StartConsolidated_noRegionCheck(urlsString, threw) ==
    /\ job.kind = "idle"
    /\ posts' = posts
    /\ LET advanceWebhookUrls == getAdvanceWebhookUrls(urlsString)
           started == [NewJob("consolidated") EXCEPT !.env = urlsString]
       IN IF threw
          THEN /\ job' = [started EXCEPT !.threw = TRUE]
               /\ exitCode' = "exit1"
          ELSE IF Len(advanceWebhookUrls) = 0
          THEN /\ job' = started
               /\ exitCode' = "exit0"
          ELSE /\ job' = [started EXCEPT !.pc = "post",
                                         !.urls = advanceWebhookUrls,
                                         !.i = 1,
                                         !.content = ConsolidatedMessage(getConfiguredRegions)]
               /\ exitCode' = exitCode
    /\ JobFrame

\* The consolidated sendAllRegionalAdvanceForecasts() starts: nothing to do
\* without advance webhook URLs or configured regions; otherwise the whole
\* message is built before the first post.
StartConsolidated(urlsString, threw) ==
    /\ job.kind = "idle"
    /\ posts' = posts
    /\ LET advanceWebhookUrls == getAdvanceWebhookUrls(urlsString)
           started == [NewJob("consolidated") EXCEPT !.env = urlsString]
       IN IF threw
          THEN /\ job' = [started EXCEPT !.threw = TRUE]
               /\ exitCode' = "exit1"
          ELSE IF Len(advanceWebhookUrls) = 0 \/ Len(getConfiguredRegions) = 0
          THEN /\ job' = started
               /\ exitCode' = "exit0"
          ELSE /\ job' = [started EXCEPT !.pc = "post",
                                         !.urls = advanceWebhookUrls,
                                         !.i = 1,
                                         !.content = ConsolidatedMessage(getConfiguredRegions)]
               /\ exitCode' = exitCode
    /\ JobFrame

\* A success test that accepts every 2xx status
PostSucceeded_any2xx(outcome) == ~outcome.threw /\ outcome.status \in 200..299

\* response.status === 204
PostSucceeded(outcome) == ~outcome.threw /\ outcome.status = 204

\* Post leaving the loop over the webhook URLs at the first failed post
Post_stopAtFailure(outcome) ==
    /\ job.kind \in {"perRegion", "consolidated"} /\ job.pc = "post"
    /\ posts' = Append(posts, [url |-> job.urls[job.i], content |-> job.content,
                               region |-> job.r, outcome |-> outcome])
    /\ job' = [job EXCEPT
                 !.results = Append(@, [webhookIndex |-> job.i,
                                        success |-> PostSucceeded(outcome)]),
                 !.i = @ + 1,
                 !.pc = IF job.i < Len(job.urls) /\ PostSucceeded(outcome) THEN "post"
                        ELSE IF job.kind = "perRegion" THEN "regionEnd"
                        ELSE "summary"]
    /\ exitCode' = exitCode
    /\ JobFrame

\* One axios.post to the next webhook URL and the recording of its result
Post(outcome) ==
    /\ job.kind \in {"perRegion", "consolidated"} /\ job.pc = "post"
    /\ posts' = Append(posts, [url |-> job.urls[job.i], content |-> job.content,
                               region |-> job.r, outcome |-> outcome])
    /\ job' = [job EXCEPT
                 !.results = Append(@, [webhookIndex |-> job.i,
                                        success |-> PostSucceeded(outcome)]),
                 !.i = @ + 1,
                 !.pc = IF job.i < Len(job.urls) THEN "post"
                        ELSE IF job.kind = "perRegion" THEN "regionEnd"
                        ELSE "summary"]
    /\ exitCode' = exitCode
    /\ JobFrame

\* sendRegionalAdvanceForecastWebhook after its last post: it returns, or
\* throws when a post failed; the batch loop records the region's result.
EndRegion ==
    /\ job.kind = "perRegion" /\ job.pc = "regionEnd"
    /\ job' = NextRegion([job EXCEPT !.regionResults =
                 Append(@, [regionId |-> getConfiguredRegions[job.r].id,
                            success  |-> Failed(job.results) = 0,
                            skipped  |-> FALSE])])
    /\ UNCHANGED <<posts, exitCode>>
    /\ JobFrame

\* The exit test with an off-by-one threshold
ExitOnFailure_moreThanOne(failed) == IF failed > 1 THEN "exit1" ELSE "exit0"

\* if (failed > 0) process.exit(1), of either job
ExitOnFailure(failed) == IF failed > 0 THEN "exit1" ELSE "exit0"

\* The summary: the job exits with code 1 when something failed
Summary ==
    /\ job.kind \in {"perRegion", "consolidated"} /\ job.pc = "summary"
    /\ job' = [job EXCEPT !.pc = "done"]
    /\ exitCode' = ExitOnFailure(IF job.kind = "perRegion"
                                 THEN Failed(job.regionResults)
                                 ELSE Failed(job.results))
    /\ posts' = posts
    /\ JobFrame

JobNext ==
    \/ \E threw \in BOOLEAN : StartPerRegion(threw)
    \/ \E urlsString \in AdvanceEnvs, threw \in BOOLEAN : StartConsolidated(urlsString, threw)
    \/ BeginRegion
    \/ \E outcome \in PostOutcomes : Post(outcome)
    \/ EndRegion
    \/ Summary

SpecJobs == JobInit /\ [][JobNext]_vars

(***************************************************************************)
(* Properties of the advance jobs.                                         *)
(***************************************************************************)
\* The job went past its early returns and its catch block
BatchRan == job.kind # "idle" /\ ~job.threw /\ (job.pc # "done" \/ job.r > 0 \/ job.i > 0)

\* Whether resolving the region and generating its advance forecast succeed
CanForecast(region) ==
    /\ getRegionConfig(region.id).error = None
    /\ getRegionalAdvanceForecast(getRegionConfig(region.id).config).error = None

\* region.name || region.id, the heading of an error placeholder
DisplayName(region) == IF region.name # "" THEN region.name ELSE region.id

\* The region, weather and error lines of a message, in order
SectionMarks(content) ==
    SelectSeq(content, LAMBDA l : l.tag \in {"region", "weather", "error"})

\* C5: a region that cannot be resolved or generated does not stop the batch:
\* the consolidated message holds, in configured order, one section per
\* configured region - its forecast, or the error placeholder exactly when the
\* region failed - and ends with the footer; the per-region job records one
\* result per configured region, in configured order.
C5_OneSectionPerRegion ==
    LET regions == getConfiguredRegions
        marks   == SectionMarks(job.content)
    IN /\ (job.kind = "consolidated" /\ BatchRan) =>
            /\ Len(marks) = 2 * Len(regions)
            /\ \A k \in DOMAIN regions :
                 /\ marks[2 * k - 1].tag = "region"
                 /\ marks[2 * k - 1].text = IF CanForecast(regions[k]) THEN regions[k].name
                                             ELSE DisplayName(regions[k])
                 /\ marks[2 * k].tag = IF CanForecast(regions[k]) THEN "weather" ELSE "error"
            /\ job.content[Len(job.content)].tag = "footer"
            /\ Len(SelectSeq(job.content, LAMBDA l : l.tag = "footer")) = 1
       /\ (job.kind = "perRegion" /\ BatchRan) =>
            /\ Len(job.regionResults) <= Len(regions)
            /\ \A k \in DOMAIN job.regionResults :
                 job.regionResults[k].regionId = regions[k].id
            /\ job.pc \in {"summary", "done"} => Len(job.regionResults) = Len(regions)

\* A consolidated message with the forecast of a region after the error
\* placeholder of an earlier region
C5_Witness ==
    /\ job.kind = "consolidated" /\ BatchRan
    /\ \E k1, k2 \in DOMAIN SectionMarks(job.content) :
          /\ k1 < k2
          /\ SectionMarks(job.content)[k1].tag = "error"
          /\ SectionMarks(job.content)[k2].tag = "weather"

\* The URLs the job posts to for the region of index r (consolidated: r = 0)
UrlsToPost(r) ==
    IF job.kind = "consolidated" THEN getAdvanceWebhookUrls(job.env)
    ELSE IF CanForecast(getConfiguredRegions[r])
    THEN getRegionConfig(getConfiguredRegions[r].id).config.advanceWebhookUrls
    ELSE <<>>

PostsOf(r) == SelectSeq(posts, LAMBDA p : p.region = r)

\* The regions whose posting is over, and the one being posted to
RegionsOver ==
    IF job.kind = "consolidated"
    THEN (IF job.pc \in {"summary", "done"} THEN {0} ELSE {})
    ELSE 1..Len(job.regionResults)

\* C8: every webhook URL of a list is posted to exactly once, in list order,
\* whatever the earlier posts answered; a failed post (a throw, or a status
\* other than 204) is recorded as a failure and the remaining URLs and the
\* remaining regions are still served.
C8_EveryUrlPostedOnce ==
    BatchRan =>
        /\ \A r \in RegionsOver :
             /\ Len(PostsOf(r)) = Len(UrlsToPost(r))
             /\ \A k \in DOMAIN PostsOf(r) : PostsOf(r)[k].url = UrlsToPost(r)[k]
        /\ job.pc = "post" =>
             /\ Len(PostsOf(job.r)) = job.i - 1
             /\ \A k \in DOMAIN PostsOf(job.r) : PostsOf(job.r)[k].url = UrlsToPost(job.r)[k]
        /\ job.pc \in {"post", "regionEnd"} \/ job.kind = "consolidated" =>
             /\ Len(job.results) = Len(PostsOf(job.r))
             /\ \A k \in DOMAIN job.results :
                  job.results[k].success
                     = (~PostsOf(job.r)[k].outcome.threw
                        /\ PostsOf(job.r)[k].outcome.status = 204)
        /\ (job.kind = "perRegion" /\ job.pc \in {"summary", "done"}) =>
             Len(job.regionResults) = Len(getConfiguredRegions)

\* The first post of a region failed; its second URL and a later region were
\* still posted to
C8_Witness ==
    /\ job.kind = "perRegion" /\ job.pc = "done"
    /\ Len(posts) = 3
    /\ posts[1].outcome.threw
    /\ posts[2].region = posts[1].region
    /\ posts[3].region > posts[1].region

\* A region of the per-region job failed: it could not be resolved or
\* generated, or one of its posts did not answer 204
RegionFailed(r) ==
    LET region == getConfiguredRegions[r]
    IN \/ getRegionConfig(region.id).error # None
       \/ /\ Len(getRegionConfig(region.id).config.advanceWebhookUrls) > 0
          /\ \/ ~CanForecast(region)
             \/ \E p \in Range(PostsOf(r)) : p.outcome.threw \/ p.outcome.status # 204

\* C10: the advance job ends with exit code 1 exactly when a region failed
\* (per-region job), a webhook delivery failed (consolidated job) or an error
\* escaped the batch; otherwise - every delivery succeeded, every region was
\* skipped, nothing was configured - it ends normally.
C10_ExitCode ==
    /\ (job.kind # "idle" /\ job.pc = "done") =>
          /\ exitCode \in {"exit0", "exit1"}
          /\ exitCode = "exit1" <=>
               \/ job.threw
               \/ /\ job.kind = "perRegion"
                  /\ \E r \in DOMAIN getConfiguredRegions : RegionFailed(r)
               \/ /\ job.kind = "consolidated"
                  /\ \E p \in Range(posts) : p.outcome.threw \/ p.outcome.status # 204
    /\ (job.kind = "idle" \/ job.pc # "done") => exitCode = "running"

\* The per-region job ended with code 1 because of one failed post among
\* successful ones
C10_Witness ==
    /\ job.kind = "perRegion" /\ job.pc = "done"
    /\ exitCode = "exit1"
    /\ Len(posts) = 3
    /\ posts[1].outcome.status = 204 /\ posts[2].outcome.status = 200
    /\ posts[3].outcome.status = 204

\* Whether the stored region has no advanceWebhookUrls (omitted or empty)
NoAdvanceUrls(region) ==
    ~Has(region, "advanceWebhookUrls") \/ Len(region.advanceWebhookUrls) = 0

\* C11: in the per-region advance job, every processed region that has no
\* advanceWebhookUrls (field omitted or empty) got no post and the result
\* {success: true, skipped: true}; it is never recorded as a failure.
C11_NoAdvanceSkipped ==
    job.kind = "perRegion" =>
        \A k \in 1..Len(job.regionResults) :
            NoAdvanceUrls(getConfiguredRegions[k]) =>
                /\ job.regionResults[k].success
                /\ job.regionResults[k].skipped
                /\ \A p \in 1..Len(posts) : posts[p].region # k

(***************************************************************************)
(* googleSheetsService: fetchConfiguration and its cache.  A call runs up  *)
(* to its first await when it is made; its continuations run when the      *)
(* awaited promises settle, and other calls may start in between.          *)
(***************************************************************************)
CacheFrame == UNCHANGED <<genVars, jobVars, fnVars>>

CacheInit ==
    /\ regionsConfig = <<>>
    /\ today \in {Date(2024, 12, 31)}
    /\ calls = <<NoCall, NoCall>>
    /\ ticks = 0
    /\ CacheIdle
    /\ JobIdle
    /\ FnIdle

\* fetchConfiguration() is called: the cached object is returned if there is
\* one; without GOOGLE_SHEET_LINK, or with a link that is no sheet URL, the
\* call throws; otherwise it awaits the Google Sheets client.
FetchCall(linkOk) ==
    /\ Len(fetchCalls) < MaxFetchCalls
    /\ fetchCalls' = Append(fetchCalls,
          IF cachedConfig # NullConfig
          THEN [pc |-> "returned", result |-> cachedConfig.obj, read |-> FALSE,
                clears |-> cacheClears, settled |-> cacheClears]
          ELSE IF ~linkOk
          THEN [pc |-> "threw", result |-> 0, read |-> FALSE, clears |-> cacheClears,
                settled |-> cacheClears]
          ELSE [pc |-> "awaitClient", result |-> 0, read |-> FALSE,
                clears |-> cacheClears, settled |-> cacheClears])
    /\ UNCHANGED <<cachedConfig, sheetReads, nextObj, cacheClears>>
    /\ CacheFrame

\* await getGoogleSheetsClient() settles: the call throws without usable
\* credentials, otherwise it requests both sheets (Promise.all) and awaits.
ClientReady(c, keyOk) ==
    /\ c \in DOMAIN fetchCalls
    /\ fetchCalls[c].pc = "awaitClient"
    /\ IF keyOk
       THEN /\ fetchCalls' = [fetchCalls EXCEPT ![c].pc = "awaitSheets", ![c].read = TRUE]
            /\ sheetReads' = sheetReads + 1
       ELSE /\ fetchCalls' = [fetchCalls EXCEPT ![c].pc = "threw",
                                                ![c].settled = cacheClears]
            /\ sheetReads' = sheetReads
    /\ UNCHANGED <<cachedConfig, nextObj, cacheClears>>
    /\ CacheFrame

\* The two sheet reads settle: a failed read or a sheet that does not parse
\* throws; otherwise the merged configuration, a new object, is cached and
\* returned.
SheetsArrive(c, outcome) ==
    /\ c \in DOMAIN fetchCalls
    /\ fetchCalls[c].pc = "awaitSheets"
    /\ IF outcome = "ok"
       THEN /\ cachedConfig' = [obj |-> nextObj]
            /\ nextObj' = nextObj + 1
            /\ fetchCalls' = [fetchCalls EXCEPT ![c].pc = "returned", ![c].result = nextObj,
                                                ![c].settled = cacheClears]
       ELSE /\ fetchCalls' = [fetchCalls EXCEPT ![c].pc = "threw",
                                                ![c].settled = cacheClears]
            /\ UNCHANGED <<cachedConfig, nextObj>>
    /\ UNCHANGED <<sheetReads, cacheClears>>
    /\ CacheFrame

\* clearConfigCache()
clearConfigCache ==
    /\ cacheClears < MaxClears
    /\ cachedConfig' = NullConfig
    /\ cacheClears' = cacheClears + 1
    /\ UNCHANGED <<sheetReads, nextObj, fetchCalls>>
    /\ CacheFrame

CacheNext ==
    \/ \E linkOk \in BOOLEAN : FetchCall(linkOk)
    \/ \E c \in 1..MaxFetchCalls, keyOk \in BOOLEAN : ClientReady(c, keyOk)
    \/ \E c \in 1..MaxFetchCalls, outcome \in {"ok", "fetch error", "parse error"} :
          SheetsArrive(c, outcome)
    \/ clearConfigCache

SpecCache == CacheInit /\ [][CacheNext]_vars

\* C9: while clearConfigCache has not been called, the sheets are read at
\* most once, whatever the number of fetchConfiguration calls and however
\* they overlap, and all calls that returned got the same object.
C9_FetchedOnce ==
    cacheClears = 0 =>
        /\ sheetReads <= 1
        /\ \A c1, c2 \in DOMAIN fetchCalls :
             (fetchCalls[c1].pc = "returned" /\ fetchCalls[c2].pc = "returned")
                => fetchCalls[c1].result = fetchCalls[c2].result

(***************************************************************************)
(* config.js: validateRegionDefinition.  A JSON value that is not an array *)
(* where the code tests Array.isArray is written NotArray(kind); arrays    *)
(* are sequences of strings.                                               *)
(***************************************************************************)
NotArray(kind) == <<"#notArray", kind>>

\* Array.isArray(value)
IsArray(value) == ~(Len(value) > 0 /\ value[1] = "#notArray")

ValidationError(code, season, key) == [code |-> code, season |-> season, key |-> key]

\* new Set(seasonData.conditions || []) throws a TypeError when the value is
\* truthy and not iterable (an object, a number)
KnownThrows(seasonData) ==
    Has(seasonData, "conditions") /\ ~IsArray(seasonData.conditions)

\* Object.keys(...) of a mapping the model keeps unordered: its keys, in one
\* fixed order
RECURSIVE KeysInOrder(_)
KeysInOrder(keys) ==
    IF keys = {} THEN <<>>
    ELSE LET first == CHOOSE key \in keys : TRUE
         IN <<first>> \o KeysInOrder(keys \ {first})

\* The errors of one required season (config.js 309-347), in the order pushed
SeasonErrors(seasonalWeather, season) ==
    IF season \notin DOMAIN seasonalWeather
    THEN << ValidationError("missingSeason", season, "") >>
    ELSE
      LET seasonData == seasonalWeather[season]
          conditionErrors ==
            IF ~Has(seasonData, "conditions") \/ ~IsArray(seasonData.conditions)
            THEN << ValidationError("conditionsNotArray", season, "") >>
            ELSE IF Len(seasonData.conditions) = 0
            THEN << ValidationError("conditionsEmpty", season, "") >>
            ELSE <<>>
          known == IF Has(seasonData, "conditions") THEN Range(seasonData.conditions) ELSE {}
          unknownKeys ==
            IF Has(seasonData, "mechanicalImpacts")
            THEN KeysInOrder({condition \in DOMAIN seasonData.mechanicalImpacts :
                                condition \notin known})
            ELSE <<>>
          impactErrors ==
            [k \in DOMAIN unknownKeys |->
               ValidationError("unknownCondition", season, unknownKeys[k])]
      IN conditionErrors \o impactErrors

\* Whether validating the season throws instead of reporting
SeasonThrows(seasonalWeather, season) ==
    /\ season \in DOMAIN seasonalWeather
    /\ Has(seasonalWeather[season], "mechanicalImpacts")
    /\ KnownThrows(seasonalWeather[season])

RECURSIVE AllSeasonErrors(_, _)
AllSeasonErrors(seasonalWeather, k) ==
    IF k > Len(Seasons) THEN <<>>
    ELSE SeasonErrors(seasonalWeather, Seasons[k]) \o AllSeasonErrors(seasonalWeather, k + 1)

\* validateRegionDefinition(regionId, regionData): the list of errors, or a throw
validateRegionDefinition(regionId, regionData) ==
    LET nameErrors ==
          IF ~Has(regionData, "name") \/ regionData.name = ""
          THEN << ValidationError("missingName", "", "") >> ELSE <<>>
        hasWebhookUrls ==
          Has(regionData, "webhookUrls") /\ IsArray(regionData.webhookUrls)
          /\ Len(regionData.webhookUrls) > 0
        hasWebhookUrl ==
          Has(regionData, "webhookUrl") /\ IsUrlString(regionData.webhookUrl)
        webhookErrors ==
          IF ~hasWebhookUrls /\ ~hasWebhookUrl
          THEN << ValidationError("missingWebhook", "", "") >> ELSE <<>>
        advanceErrors ==
          IF ~Has(regionData, "advanceWebhookUrls") THEN <<>>
          ELSE IF ~IsArray(regionData.advanceWebhookUrls)
          THEN << ValidationError("advanceNotArray", "", "") >>
          ELSE IF Len(regionData.advanceWebhookUrls) = 0
          THEN << ValidationError("advanceEmpty", "", "") >>
          ELSE <<>>
    IN IF ~Has(regionData, "seasonalWeather")
       THEN [threw |-> FALSE,
             errors |-> nameErrors \o webhookErrors \o advanceErrors
                        \o << ValidationError("missingSeasonalWeather", "", "") >>]
       ELSE IF \E k \in DOMAIN Seasons : SeasonThrows(regionData.seasonalWeather, Seasons[k])
       THEN [threw |-> TRUE, errors |-> <<>>]
       ELSE [threw |-> FALSE,
             errors |-> nameErrors \o webhookErrors \o advanceErrors
                        \o AllSeasonErrors(regionData.seasonalWeather, 1)]

(***************************************************************************)
(* Region definitions handed to validateRegionDefinition: each field in    *)
(* the shapes the code distinguishes.                                      *)
(***************************************************************************)
\* A season entry: conditions absent (0), empty, two labels, a repeated
\* label, or an object; mechanicalImpacts absent (0), keyed by a condition,
\* or also keyed by a label that is no condition of the season.
SeasonShape(c, m) ==
    LET conditions ==
          CASE c = 1 -> <<>>
            [] c = 2 -> <<"Deep snow", "Blizzard">>
            [] c = 3 -> <<"Deep snow", "Deep snow">>
            [] OTHER -> NotArray("object")
        mechanicalImpacts ==
          IF m = 1 THEN "Blizzard" :> <<"Blinded beyond 15ft">>
          ELSE ("Blizzard" :> <<"Blinded beyond 15ft">>)
               @@ ("Hail" :> <<"1 bludgeoning damage per round">>)
    IN [f \in (IF c = 0 THEN {} ELSE {"conditions"})
              \cup (IF m = 0 THEN {} ELSE {"mechanicalImpacts"}) |->
          IF f = "conditions" THEN conditions ELSE mechanicalImpacts]

\* seasonalWeather with the given winter entry; spring is regular ("ok"),
\* not a key ("missing") or has an empty conditions array ("empty")
SeasonalWeatherShape(winter, springMode) ==
    [season \in (IF springMode = "missing" THEN {} ELSE {"spring"})
                \cup {"summer", "autumn", "winter"} |->
       CASE season = "winter" -> winter
         [] season = "spring" /\ springMode = "empty" -> [conditions |-> <<>>]
         [] OTHER -> SouthernSeasonalWeather[season]]

SeasonalWeatherShapes ==
    { SeasonalWeatherShape(SeasonShape(c, m), springMode) :
        c \in 0..4, m \in 0..2, springMode \in {"ok", "missing", "empty"} }

\* A region definition: name absent (0), empty or set; webhookUrls absent (0),
\* empty or one URL; webhookUrl absent (0), a string or a number;
\* advanceWebhookUrls absent (0), empty, one URL or a string; seasonalWeather
\* absent (hasSeasons false) or one of the shapes.
RegionDefinition(n, u, l, a, hasSeasons, seasonalWeather) ==
    [f \in (IF n = 0 THEN {} ELSE {"name"})
           \cup (IF u = 0 THEN {} ELSE {"webhookUrls"})
           \cup (IF l = 0 THEN {} ELSE {"webhookUrl"})
           \cup (IF a = 0 THEN {} ELSE {"advanceWebhookUrls"})
           \cup (IF hasSeasons THEN {"seasonalWeather"} ELSE {}) |->
       CASE f = "name" -> (IF n = 1 THEN "" ELSE "Old Harbour")
         [] f = "webhookUrls" ->
              (IF u = 1 THEN <<>> ELSE <<"https://discord.test/hook/7">>)
         [] f = "webhookUrl" ->
              (IF l = 1 THEN "https://discord.test/hook/8" ELSE "#42")
         [] f = "advanceWebhookUrls" ->
              (CASE a = 1 -> <<>>
                 [] a = 2 -> <<"https://discord.test/adv/7">>
                 [] OTHER -> NotArray("string"))
         [] OTHER -> seasonalWeather]

RegionDefinitions ==
    { RegionDefinition(n, u, l, a, TRUE, sw) :
        n \in 0..2, u \in 0..2, l \in 0..2, a \in 0..3, sw \in SeasonalWeatherShapes }
    \cup
    { RegionDefinition(n, u, l, a, FALSE, <<>>) :
        n \in 0..2, u \in 0..2, l \in 0..2, a \in 0..3 }

ValidateInputs ==
    { [kind |-> "validate", regionId |-> "old_harbour", regionData |-> regionData] :
        regionData \in RegionDefinitions }

(***************************************************************************)
(* "Weather Regions" sheets handed to the parse: the README sheet with its *)
(* cells and its impact rows varied.                                       *)
(***************************************************************************)
\* Rows the mechanical impacts table may hold: impacts of conditions, of a
\* label no region uses, a row without impact, and a second row of a condition
ImpactRowPool ==
    << <<"Blizzard", "Blinded beyond 15ft, extreme cold">>,
       <<"Storms", "Disadvantage on Perception checks">>,
       <<"Heavy snowfall", "Difficult terrain outdoors, -2 to Perception">>,
       <<"Snow", " ">>,
       <<" Blizzard ", "Whiteout">>,
       <<"Early frost">> >>

\* The rows of pool whose index is in chosen, in sheet order
RECURSIVE PickRows(_, _, _)
PickRows(pool, chosen, i) ==
    IF i > Len(pool) THEN <<>>
    ELSE (IF i \in chosen THEN <<pool[i]>> ELSE <<>>) \o PickRows(pool, chosen, i + 1)

WeatherRegionsSheetWith(northWinter, southAutumn, impactRows) ==
    << <<"Region", "Spring Weather", "Summer Weather", "Autumn Weather", "Winter Weather">>,
       <<"Northern Eparchia", "Mild day, Showers, Fog", "Hot and sunny, Storms",
         "Crisp day, Rain", northWinter>>,
       <<"Southern Highlands", "Mountain mist, Cool", "Alpine summer", southAutumn>>,
       <<>>,
       <<"Condition", "Mechanical Impact">> >>
    \o impactRows

\* Webhook maps parseCommanderDatabase may hand over: the README's, one with
\* a region the weather table does not hold and without one it holds, one
\* with a single region, and an empty one
WebhookMaps ==
    { CommanderWebhooks,
      << [id |-> "Western Marches", urls |-> <<"https://discord.test/hook/4">>],
         CommanderWebhooks[1] >>,
      << CommanderWebhooks[2] >>,
      <<>> }

\* The two tables of the README sheet laid out the other way round (the
\* mechanical impacts table first), or with one of the tables left out
WeatherRegionsSheetLaidOut(layout, impactRows) ==
    LET weatherTable ==
            << <<"Region", "Spring Weather", "Summer Weather", "Autumn Weather",
                 "Winter Weather">>,
               <<"Northern Eparchia", "Mild day, Showers, Fog", "Hot and sunny, Storms",
                 "Crisp day, Rain", "Snow , Blizzard">>,
               <<"Southern Highlands", "Mountain mist, Cool", "Alpine summer",
                 "Early frost, ">> >>
        impactsTable == << <<"Condition", "Mechanical Impact">> >> \o impactRows
    IN CASE layout = "impactsFirst" -> impactsTable \o << <<>> >> \o weatherTable
         [] layout = "weatherOnly"  -> weatherTable
         [] OTHER                   -> impactsTable

SheetLayouts == {"impactsFirst", "weatherOnly", "impactsOnly"}

LaidOutInputs ==
    { [kind |-> "sheets",
       weatherRegions |-> WeatherRegionsSheetLaidOut(layout,
                                                     PickRows(ImpactRowPool, chosen, 1)),
       regionWebhooks |-> CommanderWebhooks] :
        layout \in SheetLayouts, chosen \in SUBSET {1, 2} }

SheetInputs ==
    LaidOutInputs \cup
    { [kind |-> "sheets",
       weatherRegions |-> WeatherRegionsSheetWith(northWinter, southAutumn,
                                                  PickRows(ImpactRowPool, chosen, 1)),
       regionWebhooks |-> regionWebhooks] :
        northWinter \in {"Snow , Blizzard", "Blizzard, Snow, Blizzard", ""},
        southAutumn \in {"Early frost, ", "Storms"},
        chosen \in SUBSET (1..Len(ImpactRowPool)),
        regionWebhooks \in WebhookMaps }

(***************************************************************************)
(* config.js: mergeConfigurations.  channels.json maps channel IDs to      *)
(* webhook URLs, channel-assignments.json maps region IDs to channel IDs,  *)
(* regions.json holds the weather data and, in the old format, URLs.       *)
(***************************************************************************)
\* ResolveChannels giving up the rest of the list at the first undefined ID
ResolveChannels_stopAtUnknown(channels, channelIds) ==
    LET firstUnknown == FindIndex(channelIds, LAMBDA channelId : channelId \notin DOMAIN channels)
        kept == IF firstUnknown = 0 THEN channelIds
                ELSE SubSeq(channelIds, 1, firstUnknown - 1)
    IN [k \in DOMAIN SelectSeq(kept, LAMBDA channelId : Has(channels[channelId], "webhookUrl")) |->
          channels[SelectSeq(kept, LAMBDA channelId :
                      Has(channels[channelId], "webhookUrl"))[k]].webhookUrl]

\* The channel IDs resolved to webhook URLs: an ID that channels.json does
\* not define is dropped (with a warning), and so is a channel without URL
ResolveChannels(channels, channelIds) ==
    LET urlOf(channelId) ==
          IF channelId \notin DOMAIN channels THEN Undefined
          ELSE IF ~Has(channels[channelId], "webhookUrl") THEN Undefined
          ELSE channels[channelId].webhookUrl
    IN SelectSeq(MapSeq(channelIds, urlOf), Truthy)

\* assignments.channels || [] resolved, for the region
ResolvedWebhookUrls(channels, assignments, regionId) ==
    IF regionId \in DOMAIN assignments /\ Has(assignments[regionId], "channels")
    THEN ResolveChannels(channels, assignments[regionId].channels)
    ELSE <<>>

\* assignments.advanceChannels || [] resolved, for the region
ResolvedAdvanceWebhookUrls(channels, assignments, regionId) ==
    IF regionId \in DOMAIN assignments /\ Has(assignments[regionId], "advanceChannels")
    THEN ResolveChannels(channels, assignments[regionId].advanceChannels)
    ELSE <<>>

\* mergeConfigurations(): every region of regions.json with webhookUrls and
\* advanceWebhookUrls resolved from its assignment; a webhookUrls or
\* advanceWebhookUrls array that regions.json holds (an array is truthy, the
\* empty one too) replaces the resolved one.
mergeConfigurations(channels, assignments, regions) ==
    [i \in DOMAIN regions |->
       [id |-> regions[i].id,
        data |->
          [f \in DOMAIN regions[i].data \cup {"webhookUrls", "advanceWebhookUrls"} |->
             CASE f = "webhookUrls" ->
                    (IF Has(regions[i].data, "webhookUrls")
                     THEN regions[i].data.webhookUrls
                     ELSE ResolvedWebhookUrls(channels, assignments, regions[i].id))
               [] f = "advanceWebhookUrls" ->
                    (IF Has(regions[i].data, "advanceWebhookUrls")
                     THEN regions[i].data.advanceWebhookUrls
                     ELSE ResolvedAdvanceWebhookUrls(channels, assignments, regions[i].id))
               [] OTHER -> regions[i].data[f]]]]

\* channels.json: three channels with a webhook URL and one without
ChannelsJson ==
    [channelId \in {"north_players", "north_gm", "south_players", "draft"} |->
       CASE channelId = "north_players" -> [name |-> "North players",
                                            webhookUrl |-> "https://discord.test/hook/1"]
         [] channelId = "north_gm" -> [name |-> "North GM",
                                       webhookUrl |-> "https://discord.test/adv/1"]
         [] channelId = "south_players" -> [name |-> "South players",
                                            webhookUrl |-> "https://discord.test/hook/3"]
         [] OTHER -> [name |-> "Draft"]]

\* An assignment: channels / advanceChannels absent (0) or one of the lists
Assignment(c, a) ==
    [f \in (IF c = 0 THEN {} ELSE {"channels"})
           \cup (IF a = 0 THEN {} ELSE {"advanceChannels"}) |->
       IF f = "channels"
       THEN (CASE c = 1 -> <<>>
               [] c = 2 -> <<"north_players", "ghost", "draft", "north_gm">>
               [] OTHER -> <<"ghost">>)
       ELSE (IF a = 1 THEN <<"north_gm">> ELSE <<"ghost", "north_gm">>)]

\* channel-assignments.json: the northern region assigned as given; the
\* southern one assigned a channel (1), an undefined channel (2) or absent (0)
AssignmentsJson(c, a, south) ==
    [regionId \in {"northern_eparchia"}
                  \cup (IF south = 0 THEN {} ELSE {"southern_highlands"}) |->
       IF regionId = "northern_eparchia" THEN Assignment(c, a)
       ELSE [channels |-> IF south = 1 THEN <<"south_players">> ELSE <<"ghost">>]]

\* regions.json: the northern region with the old format's webhookUrls (u),
\* advanceWebhookUrls (v) and webhookUrl (l) absent (0) or set; the southern
\* region with weather data only
LegacyFields(u, v, l) ==
    [f \in {"name", "seasonalWeather"}
           \cup (IF u = 0 THEN {} ELSE {"webhookUrls"})
           \cup (IF v = 0 THEN {} ELSE {"advanceWebhookUrls"})
           \cup (IF l = 0 THEN {} ELSE {"webhookUrl"}) |->
       CASE f = "name" -> "Northern Eparchia"
         [] f = "seasonalWeather" -> NorthernSeasonalWeather
         [] f = "webhookUrls" ->
              (CASE u = 1 -> <<>>
                 [] u = 2 -> <<"https://discord.test/old/1">>
                 [] u = 3 -> <<"", "#42">>
                 [] OTHER -> <<"", "https://discord.test/old/1">>)
         [] f = "advanceWebhookUrls" -> <<"https://discord.test/old/adv">>
         [] OTHER -> (CASE l = 1 -> "https://discord.test/old/2"
                        [] l = 2 -> "#42"
                        [] OTHER -> "")]

RegionsJson(u, v, l) ==
    << [id |-> "northern_eparchia", data |-> LegacyFields(u, v, l)],
       [id |-> "southern_highlands",
        data |-> [name |-> "Southern Highlands",
                  seasonalWeather |-> SouthernSeasonalWeather]] >>

MergeInputs ==
    { [kind |-> "merge",
       channels |-> ChannelsJson,
       assignments |-> AssignmentsJson(c, a, south),
       regions |-> RegionsJson(u, v, l)] :
        c \in 0..3, a \in 0..2, south \in 0..2, u \in 0..4, v \in 0..1, l \in 0..3 }

(***************************************************************************)
(* config.js: the loaders.  A file is absent, exists but does not parse    *)
(* ("corrupt"), or holds a JSON object ("ok"); the object a file holds is  *)
(* identified by the file's path.                                          *)
(***************************************************************************)
FileStates == {"absent", "corrupt", "ok"}

ChannelsPaths ==
    << "./channels.json", "./config/channels.json", "./src/config/channels.json",
       "__dirname/channels.json", "__dirname/channels-example.json" >>

AssignmentsPaths ==
    << "./channel-assignments.json", "./config/channel-assignments.json",
       "./src/config/channel-assignments.json", "__dirname/channel-assignments.json",
       "__dirname/channel-assignments-example.json" >>

RegionsPaths ==
    << "./regions.json", "./config/regions.json", "./src/config/custom-regions.json",
       "__dirname/regions.json", "__dirname/regions-example.json" >>

FromFile(filePath) == [source |-> "file", path |-> filePath]
FromEnv == [source |-> "env", path |-> "REGIONS_CONFIG"]
DefaultConfig == [source |-> "default", path |-> ""]
Null == [source |-> "null", path |-> ""]

\* tryLoadJsonFile without the try/catch around a path: a file that does not
\* parse ends the search
RECURSIVE tryLoadJsonFile_stopAtCorrupt(_, _)
tryLoadJsonFile_stopAtCorrupt(possiblePaths, files) ==
    IF possiblePaths = <<>> THEN Null
    ELSE IF files[Head(possiblePaths)] = "ok" THEN FromFile(Head(possiblePaths))
    ELSE IF files[Head(possiblePaths)] = "corrupt" THEN Null
    ELSE tryLoadJsonFile_stopAtCorrupt(Tail(possiblePaths), files)

\* tryLoadJsonFile(possiblePaths, fileDescription): the object of the first
\* path that exists and parses, or null
RECURSIVE tryLoadJsonFile(_, _)
tryLoadJsonFile(possiblePaths, files) ==
    IF possiblePaths = <<>> THEN Null
    ELSE IF files[Head(possiblePaths)] = "ok" THEN FromFile(Head(possiblePaths))
    ELSE tryLoadJsonFile(Tail(possiblePaths), files)

\* config || { channels: {} }
loadChannelsConfig(files) ==
    LET config == tryLoadJsonFile(ChannelsPaths, files)
    IN IF config = Null THEN DefaultConfig ELSE config

\* config || { assignments: {}, weeklyForecastChannel: null }
loadChannelAssignments(files) ==
    LET config == tryLoadJsonFile(AssignmentsPaths, files)
    IN IF config = Null THEN DefaultConfig ELSE config

\* loadRegionsConfig(): REGIONS_CONFIG when it is set and parses, else the
\* first regions file that exists and parses, else { regions: {} }
loadRegionsConfig(env, files) ==
    IF env = "parseable" THEN FromEnv
    ELSE LET config == tryLoadJsonFile(RegionsPaths, files)
         IN IF config = Null THEN DefaultConfig ELSE config

\* process.env.REGIONS_CONFIG: not set, empty, not JSON, or JSON
RegionsEnvs == {"unset", "empty", "unparseable", "parseable"}

PathsOf(what) ==
    CASE what = "channels" -> ChannelsPaths
      [] what = "assignments" -> AssignmentsPaths
      [] OTHER -> RegionsPaths

LoadInputs ==
    { [kind |-> "load", what |-> what, env |-> env,
       files |-> [filePath \in Range(PathsOf(what)) |->
                    states[CHOOSE i \in 1..5 : PathsOf(what)[i] = filePath]]] :
        what \in {"channels", "assignments", "regions"},
        env \in RegionsEnvs,
        states \in [1..5 -> FileStates] }

(***************************************************************************)
(* The configuration functions, each applied to an input it may receive.   *)
(***************************************************************************)
(***************************************************************************)
(* "Commander Database" sheets handed to parseCommanderDatabase: a header  *)
(* row and up to MaxCommanderRows data rows.                               *)
(***************************************************************************)
MaxCommanderRows == 3

\* Header rows: the README's, its columns swapped, and a column missing
CommanderHeaders ==
    { <<"Webhook URL", "Weather Region">>, <<"Weather Region", "Webhook URL">>,
      <<"Webhook URL">>, <<"Weather Region", "Region">> }

\* Data rows as <<webhook URL cell, weather region cell>>: padded cells, a
\* blank URL, an empty region, a row that ends after its first cell, an
\* empty row
CommanderRowPool ==
    { <<"https://discord.test/hook/1", "Northern Eparchia">>,
      <<" https://discord.test/hook/1 ", "Northern Eparchia">>,
      <<"https://discord.test/hook/2", "Northern Eparchia">>,
      <<"https://discord.test/hook/1", "Southern Highlands">>,
      <<"https://discord.test/hook/2", " Northern Eparchia">>,
      <<" ", "Northern Eparchia">>,
      <<"https://discord.test/hook/2", "">>,
      <<"https://discord.test/hook/3">>,
      <<>> }

\* The row laid out under the header: URL first, or region first
CommanderRow(header, row) ==
    IF header[1] = "Webhook URL" \/ Len(row) < 2 THEN row ELSE <<row[2], row[1]>>

RECURSIVE CommanderData(_, _)
CommanderData(header, n) ==
    IF n = 0 THEN {<<>>}
    ELSE {<<>>} \cup { <<CommanderRow(header, row)>> \o rest :
                         row \in CommanderRowPool, rest \in CommanderData(header, n - 1) }

CommanderInputs ==
    UNION { { [kind |-> "commander", data |-> <<header>> \o rows] :
                rows \in CommanderData(header, MaxCommanderRows) } :
            header \in CommanderHeaders }

ConfigInputs ==
    ValidateInputs \cup SheetInputs \cup MergeInputs \cup LoadInputs \cup CommanderInputs

ConfigFrame == UNCHANGED <<genVars, cacheVars, jobVars, input>>

ConfigInit ==
    /\ regionsConfig = <<>>
    /\ today = Date(2024, 12, 31)
    /\ calls = <<NoCall, NoCall>>
    /\ ticks = 0
    /\ CacheIdle
    /\ JobIdle
    /\ input \in ConfigInputs
    /\ result = NoResult

\* validateRegionDefinition(regionId, regionData) is called
ValidateRegion ==
    /\ input.kind = "validate" /\ result = NoResult
    /\ result' = [kind |-> "validate",
                  outcome |-> validateRegionDefinition(input.regionId, input.regionData)]
    /\ ConfigFrame

\* fetchConfiguration's parse and merge of the sheet data (part_002 405-415)
MergeSheets ==
    /\ input.kind = "sheets" /\ result = NoResult
    /\ LET parsed == parseWeatherRegions(input.weatherRegions)
       IN result' = [kind |-> "sheets",
                     error |-> parsed.error,
                     parsed |-> parsed,
                     regions |-> IF parsed.error # None THEN <<>>
                                 ELSE mergeConfiguration(input.regionWebhooks,
                                                         parsed.seasonalWeather,
                                                         parsed.mechanicalImpacts)]
    /\ ConfigFrame

\* regionsConfig = mergeConfigurations() at module load (config.js 161)
MergeConfigurations ==
    /\ input.kind = "merge" /\ result = NoResult
    /\ regionsConfig' = mergeConfigurations(input.channels, input.assignments,
                                            input.regions)
    /\ result' = [kind |-> "merge"]
    /\ UNCHANGED <<today, calls, ticks, cacheVars, jobVars, input>>

\* getRegionConfig(regionId) is called on the merged configuration, for a
\* region of regions.json or for an identifier it does not hold
ResolveRegion(regionId) ==
    /\ result.kind = "merge"
    /\ result' = [kind |-> "resolved", regionId |-> regionId,
                  outcome |-> getRegionConfig(regionId)]
    /\ ConfigFrame

\* One of the three loaders runs at module load (config.js 102-104)
LoadConfig ==
    /\ input.kind = "load" /\ result = NoResult
    /\ result' = [kind |-> "load",
                  config |-> CASE input.what = "channels" -> loadChannelsConfig(input.files)
                               [] input.what = "assignments" ->
                                    loadChannelAssignments(input.files)
                               [] OTHER -> loadRegionsConfig(input.env, input.files)]
    /\ ConfigFrame

\* parseCommanderDatabase(commanderData) is called (part_002 405-406)
ParseCommander ==
    /\ input.kind = "commander" /\ result = NoResult
    /\ result' = [kind |-> "commander", parsed |-> parseCommanderDatabase(input.data)]
    /\ ConfigFrame

ConfigNext ==
    \/ ValidateRegion
    \/ MergeSheets
    \/ MergeConfigurations
    \/ \E regionId \in {"northern_eparchia", "southern_highlands", "atlantis"} :
          ResolveRegion(regionId)
    \/ LoadConfig
    \/ ParseCommander

SpecConfig == ConfigInit /\ [][ConfigNext]_vars

\* The codes of the errors reported for a season
SeasonCodes(errors, season) ==
    {errors[k].code : k \in {j \in DOMAIN errors : errors[j].season = season}}

\* The region definition is complete: a name, a webhook URL, advance webhooks
\* absent or a non-empty array, four seasons with non-empty conditions arrays
\* and impact keys that are conditions of their season
CompleteDefinition(regionData) ==
    /\ Has(regionData, "name") /\ regionData.name # ""
    /\ \/ (Has(regionData, "webhookUrls") /\ IsArray(regionData.webhookUrls)
           /\ regionData.webhookUrls # <<>>)
       \/ (Has(regionData, "webhookUrl") /\ regionData.webhookUrl \notin {"", "#42", "#null"})
    /\ Has(regionData, "advanceWebhookUrls") =>
          (IsArray(regionData.advanceWebhookUrls) /\ regionData.advanceWebhookUrls # <<>>)
    /\ Has(regionData, "seasonalWeather")
    /\ \A season \in {"spring", "summer", "autumn", "winter"} :
          /\ season \in DOMAIN regionData.seasonalWeather
          /\ LET seasonData == regionData.seasonalWeather[season]
             IN /\ Has(seasonData, "conditions")
                /\ IsArray(seasonData.conditions)
                /\ seasonData.conditions # <<>>
                /\ Has(seasonData, "mechanicalImpacts") =>
                      \A key \in DOMAIN seasonData.mechanicalImpacts :
                          \E k \in DOMAIN seasonData.conditions : seasonData.conditions[k] = key

\* C12: validateRegionDefinition never throws; it reports an error for every
\* season whose conditions array is missing or empty and for every impact key
\* that is not a condition of its season; and the list is empty exactly when
\* the region definition is complete.
C12_ValidationReports ==
    result.kind = "validate" =>
        LET regionData == input.regionData
            errors     == result.outcome.errors
        IN /\ ~result.outcome.threw
           /\ Has(regionData, "seasonalWeather") =>
                \A season \in DOMAIN regionData.seasonalWeather :
                    LET seasonData == regionData.seasonalWeather[season]
                    IN /\ (~Has(seasonData, "conditions") \/ ~IsArray(seasonData.conditions)
                           \/ seasonData.conditions = <<>>)
                          => SeasonCodes(errors, season)
                               \cap {"conditionsNotArray", "conditionsEmpty"} # {}
                       /\ (Has(seasonData, "mechanicalImpacts") /\ Has(seasonData, "conditions")
                           /\ IsArray(seasonData.conditions))
                          => \A key \in DOMAIN seasonData.mechanicalImpacts :
                                (\A k \in DOMAIN seasonData.conditions :
                                    seasonData.conditions[k] # key)
                                => \E e \in DOMAIN errors :
                                      errors[e] = ValidationError("unknownCondition", season, key)
           /\ (errors = <<>>) <=> CompleteDefinition(regionData)

\* The rows of the sheet's mechanical impacts table that give the label an impact
ImpactRowsOf(sheet, label) ==
    {i \in DOMAIN sheet :
        /\ \E h \in 1..(i - 1) : Len(sheet[h]) > 0 /\ sheet[h][1] = "Condition"
        /\ Len(sheet[i]) >= 2
        /\ Trim(sheet[i][1]) = label
        /\ Trim(sheet[i][2]) # ""}

\* C13: in the configuration merged from the sheet, every key of a season's
\* mechanicalImpacts is one of the season's conditions and maps to a list of
\* one impact (the one the sheet's last row for the condition gives), and the
\* field is absent exactly when no condition of the season has an impact.
C13_SheetImpactsKeyed ==
    (result.kind = "sheets" /\ result.error = None) =>
        \A r \in DOMAIN result.regions : \A season \in Range(Seasons) :
            LET seasonData == result.regions[r].data.seasonalWeather[season]
                sheet      == input.weatherRegions
                conditions == Range(seasonData.conditions)
            IN /\ Has(seasonData, "mechanicalImpacts") =>
                    \A key \in DOMAIN seasonData.mechanicalImpacts :
                        /\ key \in conditions
                        /\ Len(seasonData.mechanicalImpacts[key]) = 1
                        /\ \E i \in ImpactRowsOf(sheet, key) :
                              /\ seasonData.mechanicalImpacts[key][1] = Trim(sheet[i][2])
                              /\ \A j \in ImpactRowsOf(sheet, key) : j <= i
               /\ ~Has(seasonData, "mechanicalImpacts") <=>
                    \A c \in conditions : ImpactRowsOf(sheet, c) = {}
               /\ Has(seasonData, "mechanicalImpacts") =>
                    \A c \in conditions :
                        ImpactRowsOf(sheet, c) # {} => c \in DOMAIN seasonData.mechanicalImpacts

\* A merged configuration with a season that has impacts and one that has
\* none, from a sheet whose impact table also names a label no season uses
C13_Witness ==
    /\ result.kind = "sheets" /\ result.error = None
    /\ ImpactRowsOf(input.weatherRegions, "Heavy snowfall") # {}
    /\ Cardinality(ImpactRowsOf(input.weatherRegions, "Blizzard")) = 2
    /\ \E r \in DOMAIN result.regions :
          /\ Has(result.regions[r].data.seasonalWeather.winter, "mechanicalImpacts")
          /\ ~Has(result.regions[r].data.seasonalWeather.spring, "mechanicalImpacts")

\* No label occurs twice in the sequence
UniqueLabels(conditions) ==
    \A i, j \in DOMAIN conditions : conditions[i] = conditions[j] => i = j

\* C14: in every region configuration the sheet parse produces, and in every
\* JSON region definition validateRegionDefinition accepts with no error, a
\* condition label occurs at most once in its season's conditions.
C14_LabelsUnique ==
    /\ (result.kind = "sheets" /\ result.error = None) =>
          \A r \in DOMAIN result.regions : \A season \in Range(Seasons) :
              UniqueLabels(result.regions[r].data.seasonalWeather[season].conditions)
    /\ (result.kind = "validate" /\ ~result.outcome.threw /\ result.outcome.errors = <<>>) =>
          \A season \in Range(Seasons) :
              UniqueLabels(input.regionData.seasonalWeather[season].conditions)

\* The region of regions.json, and whether the assignments give it channels
LoadedRegion(regionId) ==
    input.regions[CHOOSE i \in DOMAIN input.regions : input.regions[i].id = regionId].data

AssignsChannels(regionId, field) ==
    /\ regionId \in DOMAIN input.assignments
    /\ Has(input.assignments[regionId], field)
    /\ input.assignments[regionId][field] # <<>>

\* The URLs of the channels of the list that channels.json defines with a URL
ExpectedUrls(regionId, field) ==
    IF regionId \in DOMAIN input.assignments /\ Has(input.assignments[regionId], field)
    THEN LET ids == input.assignments[regionId][field]
             defined == SelectSeq(ids, LAMBDA id : id \in DOMAIN input.channels)
             withUrl == SelectSeq(defined, LAMBDA id : Has(input.channels[id], "webhookUrl"))
         IN [k \in DOMAIN withUrl |-> input.channels[withUrl[k]].webhookUrl]
    ELSE <<>>

\* C15: when regions.json holds webhookUrls (advanceWebhookUrls) for a region
\* that the channel assignments also give channels (advance channels), the
\* merged region uses the URLs resolved from the assignments; when only the
\* regions.json field exists, it is used.
C15_AssignmentsTakePrecedence ==
    result.kind \in {"merge", "resolved"} =>
        \A r \in DOMAIN regionsConfig :
            LET regionId == regionsConfig[r].id
                merged   == regionsConfig[r].data
                loaded   == LoadedRegion(regionId)
            IN /\ (Has(loaded, "webhookUrls") /\ AssignsChannels(regionId, "channels"))
                    => merged.webhookUrls = ExpectedUrls(regionId, "channels")
               /\ (Has(loaded, "advanceWebhookUrls")
                   /\ AssignsChannels(regionId, "advanceChannels"))
                    => merged.advanceWebhookUrls = ExpectedUrls(regionId, "advanceChannels")
               /\ (Has(loaded, "webhookUrls") /\ ~AssignsChannels(regionId, "channels"))
                    => merged.webhookUrls = loaded.webhookUrls
               /\ (Has(loaded, "advanceWebhookUrls")
                   /\ ~AssignsChannels(regionId, "advanceChannels"))
                    => merged.advanceWebhookUrls = loaded.advanceWebhookUrls

\* The region has no webhook URL of the old format in regions.json
NoLegacyUrl(loaded) ==
    /\ ~Has(loaded, "webhookUrl")
    /\ Has(loaded, "webhookUrls") => loaded.webhookUrls = <<>>

\* C17: a channel ID of a region's assignment that channels.json does not
\* define is dropped and the other IDs are resolved to their URLs in
\* assignment order (the merged lists of a region without the old fields are
\* exactly these URLs); a region whose assignment resolves to no URL and that
\* has no legacy URL is not returned by getConfiguredRegions.
C17_UnknownChannelDropped ==
    result.kind \in {"merge", "resolved"} =>
        \A r \in DOMAIN regionsConfig :
            LET regionId == regionsConfig[r].id
                merged   == regionsConfig[r].data
                loaded   == LoadedRegion(regionId)
            IN /\ ~Has(loaded, "webhookUrls")
                    => merged.webhookUrls = ExpectedUrls(regionId, "channels")
               /\ ~Has(loaded, "advanceWebhookUrls")
                    => merged.advanceWebhookUrls = ExpectedUrls(regionId, "advanceChannels")
               /\ (ExpectedUrls(regionId, "channels") = <<>> /\ NoLegacyUrl(loaded))
                    => \A k \in DOMAIN getConfiguredRegions :
                          getConfiguredRegions[k].id # regionId
               /\ (ExpectedUrls(regionId, "channels") # <<>> /\ ~Has(loaded, "webhookUrls"))
                    => \E k \in DOMAIN getConfiguredRegions :
                          getConfiguredRegions[k].id = regionId

\* An assignment listing an undefined channel between defined ones, resolved
\* for a region without old fields, next to a region left without any URL
C17_Witness ==
    /\ result.kind = "merge"
    /\ input.assignments["northern_eparchia"] =
          [channels |-> <<"north_players", "ghost", "draft", "north_gm">>,
           advanceChannels |-> <<"ghost", "north_gm">>]
    /\ regionsConfig[1].data.webhookUrls =
          <<"https://discord.test/hook/1", "https://discord.test/adv/1">>
    /\ regionsConfig[1].data.advanceWebhookUrls = <<"https://discord.test/adv/1">>
    /\ "southern_highlands" \in DOMAIN input.assignments
    /\ regionsConfig[2].data.webhookUrls = <<>>
    /\ Len(getConfiguredRegions) = 1

\* The positions of the priority list whose file exists and parses
Loadable == {i \in 1..5 : input.files[PathsOf(input.what)[i]] = "ok"}

\* C16: for regions a parseable REGIONS_CONFIG wins over every file;
\* otherwise, and for channels and assignments, the configuration is the one
\* of the first path of the priority list that exists and parses - files that
\* are absent or do not parse before it are passed over - and the empty
\* default when no path loads.
C16_LoadPriority ==
    result.kind = "load" =>
        IF input.what = "regions" /\ input.env = "parseable"
        THEN result.config = FromEnv
        ELSE IF Loadable = {}
        THEN result.config = DefaultConfig
        ELSE \E i \in Loadable :
                /\ \A j \in Loadable : i <= j
                /\ result.config = FromFile(PathsOf(input.what)[i])

\* Regions loaded from the third path: REGIONS_CONFIG does not parse, the
\* root file exists but does not parse, the config/ file is absent
C16_Witness ==
    /\ result.kind = "load"
    /\ input.what = "regions" /\ input.env = "unparseable"
    /\ input.files["./regions.json"] = "corrupt"
    /\ input.files["./config/regions.json"] = "absent"
    /\ input.files["__dirname/regions.json"] = "ok"
    /\ result.config = FromFile("./src/config/custom-regions.json")

(***************************************************************************)
(* The consolidated advance job run as a script (part_001 160-174): the    *)
(* configuration is loaded, then the job runs; a failed load is caught.    *)
(***************************************************************************)
MainInputs == { [kind |-> "main", config |-> config] : config \in JobConfigs }

MainInit ==
    /\ regionsConfig = <<>>
    /\ today \in JobDates
    /\ calls = <<NoCall, NoCall>>
    /\ ticks = 0
    /\ CacheIdle
    /\ JobIdle
    /\ input \in MainInputs
    /\ result = NoResult

\* await loadConfiguration(): the regions become available, or the call
\* throws and the catch of the script exits with code 1
MainLoad(ok) ==
    /\ input.kind = "main" /\ result = NoResult
    /\ IF ok
       THEN /\ regionsConfig' = input.config
            /\ result' = [kind |-> "loaded"]
            /\ exitCode' = exitCode
       ELSE /\ regionsConfig' = regionsConfig
            /\ result' = [kind |-> "loadFailed"]
            /\ exitCode' = "exit1"
    /\ UNCHANGED <<today, calls, ticks, cacheVars, job, posts, input>>

\* The script calling the job without awaiting the load
MainStart_noAwait(urlsString, threw) ==
    StartConsolidated(urlsString, threw)

\* await sendAllRegionalAdvanceForecasts(), reached once the load has completed
MainStart(urlsString, threw) ==
    /\ result.kind = "loaded"
    /\ StartConsolidated(urlsString, threw)

MainNext ==
    \/ \E ok \in BOOLEAN : MainLoad(ok)
    \/ \E urlsString \in AdvanceEnvs, threw \in BOOLEAN : MainStart(urlsString, threw)
    \/ \E outcome \in PostOutcomes : Post(outcome)
    \/ Summary

SpecMain == MainInit /\ [][MainNext]_vars

DayStartHour == 6
DayEndHour == 18

\* The day/night classification of the wall-clock hour
IsNightHour(hour) == hour < DayStartHour \/ hour >= DayEndHour

ClockInputs == { [kind |-> "clock", hour |-> hour] : hour \in 0..23 }

StyleInit ==
    /\ regionsConfig = JsonRegions
    /\ today \in JobDates
    /\ calls = <<NoCall, NoCall>>
    /\ ticks = 0
    /\ CacheIdle
    /\ JobIdle
    /\ input \in ClockInputs
    /\ result = NoResult

SpecStyle == StyleInit /\ [][JobNext]_vars

\* C19: the emoji of every weather line of a posted forecast message is the
\* variant of the wall-clock hour at which the message was generated: the
\* night variant at a night hour, the day variant at a day hour.
C19_StyledByClockHour ==
    \A p \in DOMAIN posts :
        \A l \in DOMAIN posts[p].content :
            posts[p].content[l].tag = "weather" =>
                posts[p].content[l].emoji.variant =
                    (IF IsNightHour(input.hour) THEN "night" ELSE "day")

(***************************************************************************)
(* Season resolution on its own: the season of a date and of the day after *)
(* it, for every date of a leap year and of a common year.                 *)
(***************************************************************************)
SeasonYears == {2024, 2025}

SeasonInputs ==
    { [kind |-> "date", date |-> Date(y, m, d)] :
        <<y, m, d>> \in { t \in SeasonYears \X (1..12) \X (1..31) :
                            t[3] <= DaysInMonth(t[1], t[2]) } }

SeasonInit ==
    /\ regionsConfig = <<>>
    /\ today = Date(2024, 12, 31)
    /\ calls = <<NoCall, NoCall>>
    /\ ticks = 0
    /\ CacheIdle
    /\ JobIdle
    /\ input \in SeasonInputs
    /\ result = NoResult

\* The season of the date (daily path) and of the next day (advance path)
ResolveSeason ==
    /\ input.kind = "date"
    /\ result = NoResult
    /\ result' = [kind     |-> "season",
                  season   |-> getSeason(input.date),
                  tomorrow |-> getSeason(AddDays(input.date, 1))]
    /\ UNCHANGED <<genVars, cacheVars, jobVars, input>>

SeasonNext == ResolveSeason

SpecSeason == SeasonInit /\ [][SeasonNext]_vars

FourSeasons == {"spring", "summer", "autumn", "winter"}

ColumnOf(data, title) ==
    IF \E j \in DOMAIN data[1] : data[1][j] = title
    THEN CHOOSE j \in DOMAIN data[1] : data[1][j] = title
    ELSE 0

\* The data rows that hold the URL (trimmed, non-blank) for the region
\* (trimmed, non-blank)
RowsGiving(data, region, webhookUrl) ==
    LET urlColumn    == ColumnOf(data, "Webhook URL")
        regionColumn == ColumnOf(data, "Weather Region")
    IN {i \in 2..Len(data) :
          /\ urlColumn \in DOMAIN data[i] /\ regionColumn \in DOMAIN data[i]
          /\ webhookUrl # "" /\ region # ""
          /\ Trim(data[i][urlColumn]) = webhookUrl
          /\ Trim(data[i][regionColumn]) = region}

FirstRow(rows) == CHOOSE i \in rows : \A j \in rows : i <= j

\* C21: parseCommanderDatabase groups webhook URLs by region: a data row
\* with a non-blank URL and a non-blank region contributes its trimmed URL to
\* the list of its trimmed region, rows missing either value contribute
\* nothing, a URL appears once per region, every list keeps first-occurrence
\* row order, and the same URL may be listed under several regions.
C21_WebhooksGrouped ==
    (/\ result.kind = "commander"
     /\ ColumnOf(input.data, "Webhook URL") # 0
     /\ ColumnOf(input.data, "Weather Region") # 0) =>
        LET data == input.data
            regionWebhooks == IF result.parsed.error = None
                              THEN result.parsed.regionWebhooks ELSE <<>>
            cells == UNION {Range(data[i]) : i \in 2..Len(data)}
            names == {Trim(c) : c \in cells}
        IN /\ result.parsed.error = None
           /\ \A a, b \in DOMAIN regionWebhooks :
                 regionWebhooks[a].id = regionWebhooks[b].id => a = b
           /\ \A e \in DOMAIN regionWebhooks :
                 LET urls == regionWebhooks[e].urls
                 IN /\ urls # <<>>
                    /\ \A a, b \in DOMAIN urls : urls[a] = urls[b] => a = b
                    /\ \A a \in DOMAIN urls :
                          RowsGiving(data, regionWebhooks[e].id, urls[a]) # {}
                    /\ \A a, b \in DOMAIN urls :
                          a < b =>
                            FirstRow(RowsGiving(data, regionWebhooks[e].id, urls[a]))
                              < FirstRow(RowsGiving(data, regionWebhooks[e].id, urls[b]))
           /\ \A region \in names : \A webhookUrl \in names :
                 RowsGiving(data, region, webhookUrl) # {} =>
                    \E e \in DOMAIN regionWebhooks :
                        /\ regionWebhooks[e].id = region
                        /\ webhookUrl \in Range(regionWebhooks[e].urls)

\* A padded URL and its repetition for one region, and the same URL for a
\* second region: one URL in each of the two lists
C21_Witness ==
    /\ result.kind = "commander"
    /\ result.parsed.error = None
    /\ Len(input.data) = 4
    /\ input.data[2] = <<" https://discord.test/hook/1 ", "Northern Eparchia">>
    /\ result.parsed.regionWebhooks =
         << [id |-> "Northern Eparchia", urls |-> <<"https://discord.test/hook/1">>],
            [id |-> "Southern Highlands", urls |-> <<"https://discord.test/hook/1">>] >>

\* C22: the region configuration is read-only during a run: no step of the
\* advance jobs (resolving the regions with getConfiguredRegions and
\* getRegionConfig, generating the forecasts, building and posting the
\* messages) changes the loaded regions configuration.
C22_ConfigReadOnly == [][regionsConfig' = regionsConfig]_vars

\* A finished per-region run over regions.json: both regions resolved, the
\* forecast of the first generated and posted to its two advance webhooks,
\* the second skipped
C22_Witness ==
    /\ regionsConfig = JsonRegions
    /\ job.kind = "perRegion" /\ job.pc = "done"
    /\ Len(job.regionResults) = Len(JsonRegions)
    /\ Len(posts) = 2
    /\ job.regionResults[2].skipped

(***************************************************************************)
(* The configuration cache over a run of fetchConfiguration calls.         *)
(***************************************************************************)
\* The calls that have returned a configuration with no clearConfigCache
\* since they returned
ReturnedSinceClear ==
    {a \in DOMAIN fetchCalls :
        fetchCalls[a].pc = "returned" /\ fetchCalls[a].settled = cacheClears}

\* C23: once a fetchConfiguration call has succeeded, every later call
\* returns the same object without reading the sheets, until clearConfigCache
\* is called; a call made when no call has succeeded since the last
\* clearConfigCache (or at all) is not answered from the cache; and a call
\* that fails writes nothing to the cache.
C23_CachedUntilCleared ==
    [][ /\ (Len(fetchCalls') = Len(fetchCalls) + 1) =>
             LET new == fetchCalls'[Len(fetchCalls')]
             IN /\ \A a \in ReturnedSinceClear :
                      /\ new.pc = "returned"
                      /\ new.result = fetchCalls[a].result
                      /\ ~new.read
                      /\ sheetReads' = sheetReads
                /\ ReturnedSinceClear = {} => new.pc # "returned"
        /\ (\E c \in DOMAIN fetchCalls :
               fetchCalls[c].pc # "threw" /\ fetchCalls'[c].pc = "threw")
             => cachedConfig' = cachedConfig
      ]_vars

(***************************************************************************)
(* getRegionConfig and getConfiguredRegions on the merged configuration.   *)
(***************************************************************************)
\* A non-empty string
NonEmptyString(url) == url \notin {"", "#42", "#null", Undefined}

\* C24: getRegionConfig(id) either throws or returns a configuration whose
\* webhookUrls is a non-empty array of non-empty strings and whose
\* advanceWebhookUrls is an array of non-empty strings; and a region whose
\* only webhook is the single webhookUrl string of the old format is
\* returned with that URL as a one-element webhookUrls array.
C24_ResolvedShape ==
    result.kind = "resolved" =>
        /\ result.outcome.error = None =>
              /\ result.outcome.config.webhookUrls # <<>>
              /\ \A k \in DOMAIN result.outcome.config.webhookUrls :
                    NonEmptyString(result.outcome.config.webhookUrls[k])
              /\ \A k \in DOMAIN result.outcome.config.advanceWebhookUrls :
                    NonEmptyString(result.outcome.config.advanceWebhookUrls[k])
        /\ \A r \in DOMAIN input.regions :
              (/\ input.regions[r].id = result.regionId
               /\ Has(input.regions[r].data, "webhookUrl")
               /\ NonEmptyString(input.regions[r].data.webhookUrl)
               /\ ~Has(input.regions[r].data, "webhookUrls")
               /\ ~AssignsChannels(result.regionId, "channels"))
              => /\ result.outcome.error = None
                 /\ result.outcome.config.webhookUrls = <<input.regions[r].data.webhookUrl>>

\* C25: every region that getConfiguredRegions returns is resolved by
\* getRegionConfig without throwing.
C25_ConfiguredResolves ==
    result.kind \in {"merge", "resolved"} =>
        \A k \in DOMAIN getConfiguredRegions :
            getRegionConfig(getConfiguredRegions[k].id).error = None

\* C26: a webhook post counts as successful exactly when it answered with
\* status 204; a region of the per-region job is recorded as sent
\* ({success: true, skipped: false}) only if every one of its advance
\* webhooks answered 204, and as failed otherwise, in both cases after all
\* its webhooks have been attempted.
C26_SuccessOnly204 ==
    /\ job.kind = "consolidated" =>
          \A k \in DOMAIN job.results :
              job.results[k].success <=> posts[k].outcome = [threw |-> FALSE, status |-> 204]
    /\ job.kind = "perRegion" =>
          \A k \in DOMAIN job.regionResults :
              LET sent   == PostsOf(k)
                  region == job.regionResults[k]
                  all204 == \A p \in DOMAIN sent :
                               sent[p].outcome = [threw |-> FALSE, status |-> 204]
              IN /\ (region.success /\ ~region.skipped) <=> (sent # <<>> /\ all204)
                 /\ sent # <<>> =>
                       /\ ~region.skipped
                       /\ Len(sent) = Len(UrlsToPost(k))
                       /\ ~region.success <=> ~all204

\* A region whose first advance webhook answered 200 and whose second
\* answered 204: both were attempted and the region is recorded as failed
C26_Witness ==
    /\ job.kind = "perRegion" /\ job.pc = "done"
    /\ Len(PostsOf(1)) = 2
    /\ PostsOf(1)[1].outcome = [threw |-> FALSE, status |-> 200]
    /\ PostsOf(1)[2].outcome = [threw |-> FALSE, status |-> 204]
    /\ ~job.regionResults[1].success
    /\ ~job.regionResults[1].skipped

\* C27: mergeConfiguration outputs exactly the regions that are both in the
\* webhook map and in the weather table, each once; every output region has
\* its key as its name, the webhook list of the map, and the four seasons
\* with the conditions as parsed.
C27_MergedRegions ==
    (result.kind = "sheets" /\ result.error = None) =>
        LET regionWebhooks  == input.regionWebhooks
            seasonalWeather == parseWeatherRegions(input.weatherRegions).seasonalWeather
            regions         == result.regions
        IN /\ {regions[r].id : r \in DOMAIN regions}
                = {regionWebhooks[w].id : w \in DOMAIN regionWebhooks}
                    \cap DOMAIN seasonalWeather
           /\ \A a, b \in DOMAIN regions : regions[a].id = regions[b].id => a = b
           /\ \A r \in DOMAIN regions :
                 /\ regions[r].data.name = regions[r].id
                 /\ \E w \in DOMAIN regionWebhooks :
                       /\ regionWebhooks[w].id = regions[r].id
                       /\ regions[r].data.webhookUrls = regionWebhooks[w].urls
                 /\ DOMAIN regions[r].data.seasonalWeather
                       = DOMAIN seasonalWeather[regions[r].id]
                 /\ DOMAIN regions[r].data.seasonalWeather = Range(Seasons)
                 /\ \A season \in Range(Seasons) :
                       regions[r].data.seasonalWeather[season].conditions
                         = seasonalWeather[regions[r].id][season].conditions

\* A webhook map that starts with a region the weather table does not hold
\* and lacks a region the table holds: only the common region is output
C27_Witness ==
    /\ result.kind = "sheets" /\ result.error = None
    /\ Len(input.regionWebhooks) = 2
    /\ input.regionWebhooks[1].id = "Western Marches"
    /\ Len(result.regions) = 1
    /\ result.regions[1].id = "Northern Eparchia"

(***************************************************************************)
(* The parse of the "Weather Regions" sheet, stated on the rows of the     *)
(* sheet: a table is its header row and the rows after it up to the first  *)
(* blank row.                                                              *)
(***************************************************************************)
\* The header rows of the sheet whose first cell is the title
HeaderRows(data, title) ==
    {i \in DOMAIN data : Len(data[i]) > 0 /\ data[i][1] = title}

\* The rows of the table under header row h
TableRows(data, h) ==
    {i \in (h + 1)..Len(data) :
        \A j \in (h + 1)..i : Len(data[j]) > 0 /\ Trim(data[j][1]) # ""}

\* C28: parseWeatherRegions throws when the header row of either table is
\* missing; otherwise it returns an entry for every region row of the
\* regional weather table and takes its impacts only from rows of the
\* mechanical impacts table, whichever table comes first in the sheet.
C28_BothTablesParsed ==
    result.kind = "sheets" =>
        LET data          == input.weatherRegions
            weatherHeader == HeaderRows(data, "Region")
            impactsHeader == HeaderRows(data, "Condition")
        IN IF weatherHeader = {} \/ impactsHeader = {}
           THEN result.parsed.error # None
           ELSE /\ result.parsed.error = None
                /\ \A h \in weatherHeader : \A i \in TableRows(data, h) :
                      Trim(data[i][1]) \in DOMAIN result.parsed.seasonalWeather
                /\ \A condition \in DOMAIN result.parsed.mechanicalImpacts :
                      \E h \in impactsHeader : \E i \in TableRows(data, h) :
                          Trim(data[i][1]) = condition

\* C29: the consolidated advance job posts nothing and returns normally when
\* no advance webhook URL is configured or no region is configured;
\* otherwise it posts to the configured advance webhook URLs, in order, one
\* and the same consolidated message, and to every one of them by its end.
C29_ConsolidatedSameMessage ==
    (job.kind = "consolidated" /\ ~job.threw) =>
        LET advanceWebhookUrls == getAdvanceWebhookUrls(job.env)
        IN IF advanceWebhookUrls = <<>> \/ getConfiguredRegions = <<>>
           THEN /\ posts = <<>>
                /\ job.pc = "done"
                /\ exitCode = "exit0"
           ELSE /\ Len(posts) <= Len(advanceWebhookUrls)
                /\ \A p \in DOMAIN posts :
                      /\ posts[p].url = advanceWebhookUrls[p]
                      /\ posts[p].content = posts[1].content
                      /\ posts[p].content = ConsolidatedMessage(getConfiguredRegions)
                /\ job.pc \in {"summary", "done"} => Len(posts) = Len(advanceWebhookUrls)

\* A finished consolidated job that sent its message to two advance webhook
\* URLs, the first of which failed
C29_Witness ==
    /\ job.kind = "consolidated" /\ job.pc = "done" /\ ~job.threw
    /\ Len(posts) = 2
    /\ posts[1].url # posts[2].url
    /\ posts[1].content = posts[2].content
    /\ posts[1].outcome.status = 500

====
